---- MODULE Spec2Model ----
(***************************************************************************)
(* Model of the dynamic-ui-agent core: the tree normalizer                 *)
(* (assignIdsToTree / ensureIds), the generation orchestrator (respond,    *)
(* in its fallback-enabled and its rethrowing variant) and the fallback    *)
(* synthesizer (buildFallbackResponse / statCard).                         *)
(*                                                                         *)
(* JavaScript objects are records whose DOMAIN is the set of keys the      *)
(* object has: an absent key is absent from the DOMAIN.  Arrays are        *)
(* sequences.  Strings that the code inspects character by character       *)
(* (the user prompt) are sequences of one-character strings.               *)
(***************************************************************************)
EXTENDS Integers, Sequences, FiniteSets, TLC

VARIABLES
    \* ---- normalizer harness (assignIdsToTree called standalone) ----
    nodes,          \* the forest handed to assignIdsToTree
    normalized,     \* assignIdsToTree(nodes)
    renormalized,   \* assignIdsToTree(normalized)
    uuids,          \* number of identifiers randomUUID has handed out so far
    npc,            \* position of the harness: "input", "once", "twice"
    \* ---- one respond invocation ----
    impl,           \* which respond runs: "fallback" (part_006) or "rethrow" (src/src/agent/index.ts)
    userPrompt,     \* respond's first argument
    config,         \* respond's second argument (a record; absent keys are absent)
    model,          \* the resolved language model: "unresolved", "LanguageModel" or "threw"
    pc,             \* position inside respond
    request,        \* generateConfig, the argument of the backend call (no key before the call)
    backend,        \* what the awaited backend call did
    outcome,        \* how the promise returned by respond settled
    calls,          \* number of backend calls (generateText / generateObject) respond has made
    \* ---- schema validation harness (UIElementSchema.safeParse called standalone) ----
    raw,            \* the node handed to UIElementSchema.safeParse
    validated,      \* its result: success and, on success, the parsed data
    vpc,            \* position of the harness: "idle", "input", "done" (node), "envelope"
    \* ---- an agent made by createAgent(config): its respond invocations ----
    inv,            \* per invocation: prompt, position, request, backend outcome, result
    \* ---- the chat page (app/page.tsx) and its /api/chat route ----
    pageMessages,   \* React state `messages`: the message list, every queued update applied
    input,          \* React state: the text of the input field
    isLoading,      \* React state: the loading flag
    rendered,       \* the state as of the last render: what handleSubmit's closure reads
    runs            \* the invocations of handleSubmit: position, userMessage, request, response

vars == <<nodes, normalized, renormalized, uuids, npc,
          impl, userPrompt, config, model, pc, request, backend, outcome, calls,
          raw, validated, vpc, inv,
          pageMessages, input, isLoading, rendered, runs>>

normVars == <<nodes, normalized, renormalized, npc>>
respVars == <<impl, userPrompt, config, model, pc, request, backend, outcome, calls>>
valVars == <<raw, validated, vpc>>
agentVars == <<inv>>
chatVars == <<pageMessages, input, isLoading, rendered, runs>>

\* no agent has been created
AgentIdle == inv = <<>>

\* the chat page as mounted: useState([]), useState(''), useState(false)
ChatIdle ==
    /\ pageMessages = <<>>
    /\ input = <<>>
    /\ isLoading = FALSE
    /\ rendered = [messages |-> <<>>, input |-> <<>>, isLoading |-> FALSE]
    /\ runs = <<>>

\* the schema is not being called standalone
ValidatorIdle ==
    /\ raw = <<>>
    /\ validated = <<>>
    /\ vpc = "idle"

----------------------------------------------------------------------------
(* Objects *)

Has(o, k) == k \in DOMAIN o

\* { ...a, ...b }: the keys of both, b's value where both have the key
Spread(a, b) ==
    [k \in DOMAIN a \cup DOMAIN b |-> IF k \in DOMAIN b THEN b[k] ELSE a[k]]

\* a number that the code tests for being an integer (heading level): its
\* whole part and its first decimal
Number(whole, tenths) == [whole |-> whole, tenths |-> tenths]
Whole(n) == Number(n, 0)
isInteger(v) == v.tenths = 0

----------------------------------------------------------------------------
(* Bounds *)

\* largest number of nodes (fields included) of an input forest
MaxNodes == 3

\* largest number of nodes in the ui of an object the backend returns
MaxResponseNodes == 2

\* largest number of messages in config.history
MaxHistory == 2

\* largest number of words a prompt given to buildFallbackResponse is made of
MaxWords == 2

\* largest number of containers a validated node is nested in
MaxDepth == 2

\* number of respond invocations made on one agent
MaxCalls == 2

----------------------------------------------------------------------------
(* Identity minting *)

\* Mutation of randomUUID: a source that repeats itself.
randomUUID_Repeating(n) == "uuid-0"

\* crypto.randomUUID(): the n-th identifier handed out.  The values are
\* pairwise distinct and none is a literal a caller wrote.
randomUUID(n) == "uuid-" \o ToString(n)

\* Mutation of coalesceId: ?? randomUUID() replaced by an unconditional mint.
coalesceId_AlwaysMint(node, n) == [id |-> randomUUID(n), next |-> n + 1]

\* node.id ?? randomUUID(): the id the node gets and the count of
\* identifiers handed out afterwards.  ?? mints only for an absent id: the
\* empty string is a present id.
coalesceId(node, n) ==
    IF Has(node, "id")
    THEN [id |-> node.id, next |-> n]
    ELSE [id |-> randomUUID(n), next |-> n + 1]

----------------------------------------------------------------------------
(* Tree normalizer *)

\* Mutation of mapFields: the fields of a form are left as they are.
mapFields_Skip(fields, n) == [out |-> fields, next |-> n]

\* Mutation of mapFields: every field gets a new id, also one that has an id.
RECURSIVE mapFields_Remint(_, _)
mapFields_Remint(fields, n) ==
    IF fields = <<>>
    THEN [out |-> <<>>, next |-> n]
    ELSE LET rest == mapFields_Remint(Tail(fields), n + 1)
         IN  [out  |-> <<Spread(Head(fields), [id |-> randomUUID(n)])>> \o rest.out,
              next |-> rest.next]

\* props.fields.map((f) => ({ ...f, id: f.id ?? randomUUID() }))
RECURSIVE mapFields(_, _)
mapFields(fields, n) ==
    IF fields = <<>>
    THEN [out |-> <<>>, next |-> n]
    ELSE LET f    == Head(fields)
             c    == coalesceId(f, n)
             rest == mapFields(Tail(fields), c.next)
         IN  [out  |-> <<Spread(f, [id |-> c.id])>> \o rest.out,
              next |-> rest.next]

\* assignIdsToTree(nodes), with n identifiers handed out before the call:
\* the new forest (out) and the identifiers handed out after it (next).
\* assignNode is the callback of nodes.map.
RECURSIVE assignIdsToTree(_, _)
RECURSIVE assignNode(_, _)

assignNode(node, n) ==
    LET c == coalesceId(node, n) IN
    IF node.type = "container" \/ node.type = "form"
    THEN LET hasChildren == Has(node, "children")
             children == IF hasChildren
                         THEN assignIdsToTree(node.children, c.next)
                         ELSE [out |-> <<>>, next |-> c.next]
             props    == IF Has(node, "props") THEN node.props ELSE <<>>
             hasFields == Has(props, "fields")
             fields   == IF hasFields
                         THEN mapFields(props.fields, children.next)
                         ELSE [out |-> <<>>, next |-> children.next]
         IN  [out  |-> Spread(Spread(Spread(node, [id |-> c.id]),
                                     IF hasChildren
                                     THEN [children |-> children.out]
                                     ELSE <<>>),
                              [props |-> Spread(props,
                                                IF hasFields
                                                THEN [fields |-> fields.out]
                                                ELSE <<>>)]),
              next |-> fields.next]
    ELSE [out |-> Spread(node, [id |-> c.id]), next |-> c.next]

\* Mutation of assignIdsToTree: the siblings come back in reverse order.
RECURSIVE assignIdsToTree_Reversed(_, _)
assignIdsToTree_Reversed(ns, n) ==
    IF ns = <<>>
    THEN [out |-> <<>>, next |-> n]
    ELSE LET first == assignNode(Head(ns), n)
             rest  == assignIdsToTree_Reversed(Tail(ns), first.next)
         IN  [out |-> rest.out \o <<first.out>>, next |-> rest.next]

assignIdsToTree(ns, n) ==
    IF ns = <<>>
    THEN [out |-> <<>>, next |-> n]
    ELSE LET first == assignNode(Head(ns), n)
             rest  == assignIdsToTree(Tail(ns), first.next)
         IN  [out |-> <<first.out>> \o rest.out, next |-> rest.next]

\* ensureIds(resp): a copy of the envelope whose ui went through the normalizer
ensureIds(resp, n) ==
    LET ui == assignIdsToTree(resp.ui, n)
    IN  [out |-> Spread(resp, [ui |-> ui.out]), next |-> ui.next]

----------------------------------------------------------------------------
(* Schema-valid input forests *)

\* the id literals a caller (or the backend) writes; the empty string is
\* accepted by z.string().optional()
CallerIds == {"", "a"}

\* id: z.string().optional(): no id (<<>>) or one of the literals (<<i>>)
IdOptions == {<<>>} \cup {<<i>> : i \in CallerIds}

\* Shapes: forests in which no node has an id yet.  TreeShapes(n) are the
\* nodes with exactly n nodes in all (fields included), ForestShapes(n)
\* likewise.  The fields key of a form and the children key of a container
\* may be omitted: both have a default in the schema.
TextShape  == [type |-> "text", props |-> [text |-> <<"h", "i">>]]
InputShape == [type |-> "input", props |-> [name |-> "email"]]
FormShape  == [type |-> "form", props |-> [submitLabel |-> "Submit"]]
ContainerShape == [type |-> "container", props |-> [direction |-> "column"]]

RECURSIVE TreeShapes(_)
RECURSIVE ForestShapes(_)

TreeShapes(n) ==
    IF n = 0 THEN {}
    ELSE (IF n = 1 THEN {TextShape, FormShape, ContainerShape} ELSE {})
         \cup {[type |-> "form",
                props |-> [submitLabel |-> "Submit",
                           fields |-> [i \in 1..(n - 1) |-> InputShape]]]}
         \cup {[type |-> "container", props |-> ContainerShape.props,
                children |-> f] : f \in ForestShapes(n - 1)}

ForestShapes(n) ==
    IF n = 0 THEN {<<>>}
    ELSE UNION {{<<t>> \o f : t \in TreeShapes(k), f \in ForestShapes(n - k)}
                : k \in 1..n}

AllShapes == UNION {ForestShapes(n) : n \in 0..MaxNodes}

\* the k-th node of the shape, in document order, gets the id plan[k]
withId(node, opt) == IF opt = <<>> THEN node ELSE Spread(node, [id |-> opt[1]])

RECURSIVE labelFields(_, _, _)
labelFields(fields, plan, k) ==
    IF fields = <<>> THEN <<>>
    ELSE <<withId(Head(fields), plan[k])>> \o labelFields(Tail(fields), plan, k + 1)

RECURSIVE labelForest(_, _, _)
RECURSIVE labelNode(_, _, _)

labelNode(node, plan, k) ==
    LET children == IF Has(node, "children")
                    THEN labelForest(node.children, plan, k + 1)
                    ELSE [out |-> <<>>, next |-> k + 1]
        withChildren == IF Has(node, "children")
                        THEN Spread(node, [children |-> children.out])
                        ELSE node
    IN  IF Has(node.props, "fields")
        THEN [out  |-> withId(Spread(withChildren,
                          [props |-> Spread(node.props,
                              [fields |-> labelFields(node.props.fields, plan,
                                                      children.next)])]),
                          plan[k]),
              next |-> children.next + Len(node.props.fields)]
        ELSE [out |-> withId(withChildren, plan[k]), next |-> children.next]

labelForest(forest, plan, k) ==
    IF forest = <<>>
    THEN [out |-> <<>>, next |-> k]
    ELSE LET first == labelNode(Head(forest), plan, k)
             rest  == labelForest(Tail(forest), plan, first.next)
         IN  [out |-> <<first.out>> \o rest.out, next |-> rest.next]

\* every node of a forest, fields included, in document order
RECURSIVE NodeList(_)
NodeList(forest) ==
    IF forest = <<>> THEN <<>>
    ELSE LET node == Head(forest)
         IN  <<node>>
             \o (IF Has(node, "children") THEN NodeList(node.children) ELSE <<>>)
             \o (IF Has(node, "props") /\ Has(node.props, "fields")
                 THEN node.props.fields ELSE <<>>)
             \o NodeList(Tail(forest))

----------------------------------------------------------------------------
(* Fallback synthesizer.  A string the code reads character by character    *)
(* (the prompt, and hence every text prop) is a sequence of characters.     *)

UpperCaseLetters ==
    <<"A", "B", "C", "D", "E", "F", "G", "H", "I", "J", "K", "L", "M", "N", "O", "P", "Q", "R", "S", "T", "U", "V", "W", "X", "Y", "Z">>
LowerCaseLetters ==
    <<"a", "b", "c", "d", "e", "f", "g", "h", "i", "j", "k", "l", "m", "n", "o", "p", "q", "r", "s", "t", "u", "v", "w", "x", "y", "z">>

\* String.prototype.toLowerCase, on the letters A-Z
toLowerCase(str) ==
    [i \in 1..Len(str) |->
        IF \E k \in 1..26 : UpperCaseLetters[k] = str[i]
        THEN LowerCaseLetters[CHOOSE k \in 1..26 : UpperCaseLetters[k] = str[i]]
        ELSE str[i]]

\* an unanchored regular expression that is one literal: the literal occurs
includes(str, word) ==
    \E i \in 0..(Len(str) - Len(word)) : SubSeq(str, i + 1, i + Len(word)) = word

\* /(pricing|plans|tiers?)/
PricingWords ==
    {<<"p", "r", "i", "c", "i", "n", "g">>,
     <<"p", "l", "a", "n", "s">>,
     <<"t", "i", "e", "r">>,
     <<"t", "i", "e", "r", "s">>}

\* /(dashboard|stat|kpi|metric|card)/
DashboardWords ==
    {<<"d", "a", "s", "h", "b", "o", "a", "r", "d">>,
     <<"s", "t", "a", "t">>,
     <<"k", "p", "i">>,
     <<"m", "e", "t", "r", "i", "c">>,
     <<"c", "a", "r", "d">>}

matchesPricing(lower) == \E w \in PricingWords : includes(lower, w)
matchesDashboard(lower) == \E w \in DashboardWords : includes(lower, w)

\* Mutation of statCard: the hint is never rendered.
statCard_NoHint(label, value, hint) ==
    [type |-> "container",
     props |-> [direction |-> "column", gap |-> 8, align |-> "start", justify |-> "start"],
     children |->
        <<[type |-> "text", props |-> [text |-> label, variant |-> "muted"]],
          [type |-> "heading", props |-> [text |-> value, level |-> Whole(2)]]>>]

\* statCard(label, value, hint): the hint is given at all three call sites
statCard(label, value, hint) ==
    [type |-> "container",
     props |-> [direction |-> "column", gap |-> 8, align |-> "start", justify |-> "start"],
     children |->
        <<[type |-> "text", props |-> [text |-> label, variant |-> "muted"]],
          [type |-> "heading", props |-> [text |-> value, level |-> Whole(2)]]>>
        \o (IF hint # <<>>
            THEN <<[type |-> "text", props |-> [text |-> hint, variant |-> "caption"]]>>
            ELSE <<>>)]

\* Mutation of pricingFallback: the two rows are exchanged.
pricingFallback_RowsSwapped ==
    [title |-> "Pricing",
     description |-> "Auto-generated pricing table (fallback)",
     messages |-> <<>>,
     ui |-> <<[type |-> "table",
               props |-> [columns |-> <<[key |-> "tier", header |-> "Tier"],
                                        [key |-> "price", header |-> "Price"],
                                        [key |-> "features", header |-> "Features"]>>,
                          rows |-> <<[tier |-> "Pro", price |-> "$20/mo",
                                      features |-> "Feature A, Feature B, Feature C"],
                                     [tier |-> "Basic", price |-> "$10/mo",
                                      features |-> "Feature A, Feature B"]>>]]>>,
     actions |-> <<>>,
     suggestions |-> <<"Show enterprise tier", "Add billing cycle switcher">>]

pricingFallback ==
    [title |-> "Pricing",
     description |-> "Auto-generated pricing table (fallback)",
     messages |-> <<>>,
     ui |-> <<[type |-> "table",
               props |-> [columns |-> <<[key |-> "tier", header |-> "Tier"],
                                        [key |-> "price", header |-> "Price"],
                                        [key |-> "features", header |-> "Features"]>>,
                          rows |-> <<[tier |-> "Basic", price |-> "$10/mo",
                                      features |-> "Feature A, Feature B"],
                                     [tier |-> "Pro", price |-> "$20/mo",
                                      features |-> "Feature A, Feature B, Feature C"]>>]]>>,
     actions |-> <<>>,
     suggestions |-> <<"Show enterprise tier", "Add billing cycle switcher">>]

\* Mutation of dashboardFallback: the row container's gap is 64.
dashboardFallback_WideGap ==
    [title |-> "Dashboard",
     description |-> "Auto-generated stats card (fallback)",
     messages |-> <<>>,
     ui |-> <<[type |-> "container",
               props |-> [direction |-> "row", gap |-> 64, align |-> "start", justify |-> "start"],
               children |->
                 <<statCard(<<"U", "s", "e", "r", "s">>, <<"1", ",", "2", "3", "4">>, <<"+", "1", "2", "%", " ", "M", "o", "M">>),
                   statCard(<<"R", "e", "v", "e", "n", "u", "e">>, <<"$", "5", "6", ",", "7", "8", "9">>, <<"+", "5", "%", " ", "M", "o", "M">>),
                   statCard(<<"C", "o", "n", "v", "e", "r", "s", "i", "o", "n">>, <<"3", ".", "2", "%">>, <<"+", "0", ".", "3", " ", "p", "p">>)>>]>>,
     actions |-> <<>>,
     suggestions |-> <<"Show last 7 days", "Add sparkline", "Breakdown by segment">>]

dashboardFallback ==
    [title |-> "Dashboard",
     description |-> "Auto-generated stats card (fallback)",
     messages |-> <<>>,
     ui |-> <<[type |-> "container",
               props |-> [direction |-> "row", gap |-> 16, align |-> "start", justify |-> "start"],
               children |->
                 <<statCard(<<"U", "s", "e", "r", "s">>, <<"1", ",", "2", "3", "4">>, <<"+", "1", "2", "%", " ", "M", "o", "M">>),
                   statCard(<<"R", "e", "v", "e", "n", "u", "e">>, <<"$", "5", "6", ",", "7", "8", "9">>, <<"+", "5", "%", " ", "M", "o", "M">>),
                   statCard(<<"C", "o", "n", "v", "e", "r", "s", "i", "o", "n">>, <<"3", ".", "2", "%">>, <<"+", "0", ".", "3", " ", "p", "p">>)>>]>>,
     actions |-> <<>>,
     suggestions |-> <<"Show last 7 days", "Add sparkline", "Breakdown by segment">>]

\* Mutation of genericFallback: no suggestion is offered.
genericFallback_NoSuggestions(prompt) ==
    [title |-> "Generated UI",
     description |-> "Auto-generated fallback based on your prompt",
     messages |-> <<>>,
     ui |-> <<[type |-> "container",
               props |-> [direction |-> "column", gap |-> 12, align |-> "start", justify |-> "start"],
               children |->
                 <<[type |-> "heading", props |-> [text |-> <<"R", "e", "q", "u", "e", "s", "t">>, level |-> Whole(3)]],
                   [type |-> "text", props |-> [text |-> prompt, variant |-> "body"]]>>]>>,
     actions |-> <<>>,
     suggestions |-> <<>>]

\* Mutation of genericFallback: the lowercased copy of the prompt is echoed.
genericFallback_EchoLower(prompt) ==
    [title |-> "Generated UI",
     description |-> "Auto-generated fallback based on your prompt",
     messages |-> <<>>,
     ui |-> <<[type |-> "container",
               props |-> [direction |-> "column", gap |-> 12, align |-> "start", justify |-> "start"],
               children |->
                 <<[type |-> "heading", props |-> [text |-> <<"R", "e", "q", "u", "e", "s", "t">>, level |-> Whole(3)]],
                   [type |-> "text", props |-> [text |-> toLowerCase(prompt), variant |-> "body"]]>>]>>,
     actions |-> <<>>,
     suggestions |-> <<"Clarify fields or layout", "Include data examples">>]

genericFallback(prompt) ==
    [title |-> "Generated UI",
     description |-> "Auto-generated fallback based on your prompt",
     messages |-> <<>>,
     ui |-> <<[type |-> "container",
               props |-> [direction |-> "column", gap |-> 12, align |-> "start", justify |-> "start"],
               children |->
                 <<[type |-> "heading", props |-> [text |-> <<"R", "e", "q", "u", "e", "s", "t">>, level |-> Whole(3)]],
                   [type |-> "text", props |-> [text |-> prompt, variant |-> "body"]]>>]>>,
     actions |-> <<>>,
     suggestions |-> <<"Clarify fields or layout", "Include data examples">>]

\* Mutation of buildFallbackResponse: the dashboard rule is tried first.
buildFallbackResponse_DashboardFirst(prompt) ==
    LET lower == toLowerCase(prompt)
    IN  IF matchesDashboard(lower) THEN dashboardFallback
        ELSE IF matchesPricing(lower) THEN pricingFallback
        ELSE genericFallback(prompt)

buildFallbackResponse(prompt) ==
    LET lower == toLowerCase(prompt)
    IN  IF matchesPricing(lower) THEN pricingFallback
        ELSE IF matchesDashboard(lower) THEN dashboardFallback
        ELSE genericFallback(prompt)

----------------------------------------------------------------------------
(* Schema validation (zod): what UIElementSchema and AgentResponseSchema     *)
(* accept, and the data they return: undeclared keys are stripped, declared  *)
(* defaults fill the absent keys.  The value under a key has the key's       *)
(* declared JavaScript type; a number is an integer.                         *)

NodeTypes ==
    {"text", "heading", "button", "input", "form", "list", "table", "code", "container"}

TextVariants == {"body", "muted", "caption"}
ButtonVariants == {"primary", "secondary", "danger"}
InputTypes == {"text", "email", "password", "number", "date"}
Directions == {"row", "column"}
Aligns == {"start", "center", "end", "stretch"}
Justifies == {"start", "center", "end", "between"}
MessageRoles == {"system", "user", "assistant", "tool"}
ActionTypes == {"submit", "navigate", "open_url", "emit_event", "call"}

\* the keys the props object of the type declares
DeclaredProps(type) ==
    CASE type = "text" -> {"text", "variant"}
      [] type = "heading" -> {"text", "level"}
      [] type = "button" -> {"label", "variant", "actionId"}
      [] type = "input" -> {"name", "label", "placeholder", "value", "required", "inputType"}
      [] type = "form" -> {"title", "fields", "submitLabel", "actionId"}
      [] type = "list" -> {"items"}
      [] type = "table" -> {"columns", "rows"}
      [] type = "code" -> {"language", "code"}
      [] type = "container" -> {"direction", "gap", "align", "justify"}

\* the declared keys that are neither optional nor defaulted
RequiredProps(type) ==
    CASE type = "text" -> {"text"}
      [] type = "heading" -> {"text"}
      [] type = "button" -> {"label"}
      [] type = "input" -> {"name"}
      [] type = "form" -> {}
      [] type = "list" -> {"items"}
      [] type = "table" -> {"columns", "rows"}
      [] type = "code" -> {"code"}
      [] type = "container" -> {}

\* the .default(...) of the props of the type
DefaultProps(type) ==
    CASE type = "text" -> [variant |-> "body"]
      [] type = "heading" -> [level |-> Whole(2)]
      [] type = "button" -> [variant |-> "primary"]
      [] type = "input" -> [inputType |-> "text"]
      [] type = "form" -> [fields |-> <<>>, submitLabel |-> "Submit"]
      [] type = "code" -> [language |-> "txt"]
      [] type = "container" ->
            [direction |-> "column", gap |-> 12, align |-> "start", justify |-> "start"]
      [] OTHER -> <<>>

\* Mutation of InDomain: the numeric ranges are not checked.
InDomain_NoRange(type, k, v) ==
    CASE type = "text" /\ k = "variant" -> v \in TextVariants
      [] type = "button" /\ k = "variant" -> v \in ButtonVariants
      [] type = "input" /\ k = "inputType" -> v \in InputTypes
      [] type = "container" /\ k = "direction" -> v \in Directions
      [] type = "container" /\ k = "align" -> v \in Aligns
      [] type = "container" /\ k = "justify" -> v \in Justifies
      [] OTHER -> TRUE

\* the declared domain of a declared key
InDomain(type, k, v) ==
    CASE type = "text" /\ k = "variant" -> v \in TextVariants
      [] type = "heading" /\ k = "level" -> isInteger(v) /\ v.whole >= 1 /\ v.whole <= 4
      [] type = "button" /\ k = "variant" -> v \in ButtonVariants
      [] type = "input" /\ k = "inputType" -> v \in InputTypes
      [] type = "container" /\ k = "direction" -> v \in Directions
      [] type = "container" /\ k = "gap" -> v >= 0 /\ v <= 48
      [] type = "container" /\ k = "align" -> v \in Aligns
      [] type = "container" /\ k = "justify" -> v \in Justifies
      [] type = "table" /\ k = "columns" ->
            \A i \in 1..Len(v) : Has(v[i], "key") /\ Has(v[i], "header")
      [] OTHER -> TRUE

\* the props object of the type accepts the props (fields apart)
acceptsProps(type, props) ==
    /\ RequiredProps(type) \subseteq DOMAIN props
    /\ \A k \in DOMAIN props \cap DeclaredProps(type) : InDomain(type, k, props[k])

\* Mutation of acceptsInput: an entry of fields may be a node of any type.
acceptsInput_AnyType(node) ==
    /\ Has(node, "type") /\ node.type \in NodeTypes
    /\ Has(node, "props") /\ acceptsProps(node.type, node.props)

\* UIInput accepts the node
acceptsInput(node) ==
    /\ Has(node, "type") /\ node.type = "input"
    /\ Has(node, "props") /\ acceptsProps("input", node.props)

\* UIElementSchema accepts the node
RECURSIVE accepts(_)
accepts(node) ==
    /\ Has(node, "type") /\ node.type \in NodeTypes
    /\ Has(node, "props") /\ acceptsProps(node.type, node.props)
    /\ (node.type = "form" /\ Has(node.props, "fields"))
          => \A i \in 1..Len(node.props.fields) : acceptsInput(node.props.fields[i])
    /\ (node.type = "container" /\ Has(node, "children"))
          => \A i \in 1..Len(node.children) : accepts(node.children[i])

\* Mutation of parseProps: a default replaces the value that was supplied.
parseProps_DefaultsWin(type, props) ==
    Spread([k \in DOMAIN props \cap DeclaredProps(type) |-> props[k]],
           DefaultProps(type))

\* the declared keys of the props, with the defaults under the absent ones
parseProps(type, props) ==
    Spread(DefaultProps(type),
           [k \in DOMAIN props \cap DeclaredProps(type) |-> props[k]])

\* the id of a node, when it has one
idOf(node) == IF Has(node, "id") THEN [id |-> node.id] ELSE <<>>

\* the data UIInput returns for a node it accepts
parseInput(node) ==
    Spread([type |-> "input", props |-> parseProps("input", node.props)], idOf(node))

\* the data UIElementSchema returns for a node it accepts
RECURSIVE parse(_)
parse(node) ==
    LET props == parseProps(node.type, node.props)
        parsedProps ==
            IF node.type = "form"
            THEN Spread(props, [fields |-> [i \in 1..Len(props.fields) |->
                                              parseInput(props.fields[i])]])
            ELSE props
        children ==
            IF node.type # "container" THEN <<>>
            ELSE [children |-> IF Has(node, "children")
                               THEN [i \in 1..Len(node.children) |-> parse(node.children[i])]
                               ELSE <<>>]
    IN  Spread(Spread([type |-> node.type, props |-> parsedProps], idOf(node)), children)

\* UIElementSchema.safeParse(node)
safeParse(node) ==
    IF accepts(node) THEN [success |-> TRUE, data |-> parse(node)]
    ELSE [success |-> FALSE]

\* AgentResponseSchema accepts the object
acceptsResponse(r) ==
    /\ Has(r, "messages") =>
          \A i \in 1..Len(r.messages) :
              /\ Has(r.messages[i], "role") /\ r.messages[i].role \in MessageRoles
              /\ Has(r.messages[i], "content") /\ Len(r.messages[i].content) >= 1
    /\ Has(r, "ui") => \A i \in 1..Len(r.ui) : accepts(r.ui[i])
    /\ Has(r, "actions") =>
          \A i \in 1..Len(r.actions) :
              /\ Has(r.actions[i], "id")
              /\ Has(r.actions[i], "type") /\ r.actions[i].type \in ActionTypes

\* Mutation of safeParseResponse: only the top-level nodes of ui are
\* validated, and they are returned as given.
safeParseResponse_Shallow(r) ==
    IF Has(r, "ui") =>
          \A i \in 1..Len(r.ui) :
              /\ Has(r.ui[i], "type") /\ r.ui[i].type \in NodeTypes
              /\ Has(r.ui[i], "props") /\ acceptsProps(r.ui[i].type, r.ui[i].props)
    THEN [success |-> TRUE,
          data |-> Spread([messages |-> <<>>, ui |-> <<>>,
                           actions |-> <<>>, suggestions |-> <<>>], r)]
    ELSE [success |-> FALSE]

\* AgentResponseSchema.safeParse(r): on success, ui holds the parsed nodes
\* and the absent lists are empty
safeParseResponse(r) ==
    IF acceptsResponse(r)
    THEN [success |-> TRUE,
          data |-> Spread(Spread([messages |-> <<>>, ui |-> <<>>,
                                  actions |-> <<>>, suggestions |-> <<>>], r),
                          IF Has(r, "ui")
                          THEN [ui |-> [i \in 1..Len(r.ui) |-> parse(r.ui[i])]]
                          ELSE <<>>)]
    ELSE [success |-> FALSE]

----------------------------------------------------------------------------
(* The normalizer called standalone: assignIdsToTree(nodes), then           *)
(* assignIdsToTree on its own result.                                       *)

\* respond is not running in the normalizer harness
RespondIdle ==
    /\ impl = "none"
    /\ userPrompt = <<>>
    /\ config = <<>>
    /\ model = "unresolved"
    /\ pc = "idle"
    /\ request = <<>>
    /\ backend = [kind |-> "idle"]
    /\ outcome = [kind |-> "pending"]
    /\ calls = 0

InitNormalizer ==
    /\ \E shape \in AllShapes, plan \in [1..MaxNodes -> IdOptions] :
          nodes = labelForest(shape, plan, 1).out
    /\ normalized = <<>>
    /\ renormalized = <<>>
    /\ uuids = 0
    /\ npc = "input"
    /\ RespondIdle
    /\ ValidatorIdle
    /\ AgentIdle
    /\ ChatIdle

\* Mutation of Normalize: the ids are written into the forest it was given.
Normalize_InPlace ==
    /\ npc = "input"
    /\ LET r == assignIdsToTree(nodes, uuids)
       IN  /\ normalized' = r.out
           /\ nodes' = r.out
           /\ uuids' = r.next
    /\ npc' = "once"
    /\ UNCHANGED renormalized
    /\ UNCHANGED respVars
    /\ UNCHANGED valVars
    /\ UNCHANGED agentVars
    /\ UNCHANGED chatVars

Normalize ==
    /\ npc = "input"
    /\ LET r == assignIdsToTree(nodes, uuids)
       IN  /\ normalized' = r.out
           /\ uuids' = r.next
    /\ npc' = "once"
    /\ UNCHANGED <<nodes, renormalized>>
    /\ UNCHANGED respVars
    /\ UNCHANGED valVars
    /\ UNCHANGED agentVars
    /\ UNCHANGED chatVars

NormalizeAgain ==
    /\ npc = "once"
    /\ LET r == assignIdsToTree(normalized, uuids)
       IN  /\ renormalized' = r.out
           /\ uuids' = r.next
    /\ npc' = "twice"
    /\ UNCHANGED <<nodes, normalized>>
    /\ UNCHANGED respVars
    /\ UNCHANGED valVars
    /\ UNCHANGED agentVars
    /\ UNCHANGED chatVars

NextNormalizer == Normalize \/ NormalizeAgain

SpecNormalizer == InitNormalizer /\ [][NextNormalizer]_vars

----------------------------------------------------------------------------
(* respond: one invocation, in the fallback-enabled variant (part_006) or   *)
(* the rethrowing variant (src/src/agent/index.ts).  The code up to the     *)
(* await of the backend call is one step; what follows the await is one     *)
(* step per way the backend call can settle.                                *)

Prompts ==
    {<<>>,
     <<"H", "i">>,
     <<"T", "i", "e", "r", "s">>,
     <<"K", "P", "I", " ", "p", "l", "a", "n", "s">>,
     <<"C", "a", "r", "d">>}

\* config (undefined and {} behave alike under config?.x): schema is absent,
\* the built-in AgentResponseSchema passed explicitly, or a caller's schema;
\* autoAssignIds is absent, true or false
SchemaOptions == {"undefined", "AgentResponseSchema", "CustomSchema"}
AutoAssignOptions == {"undefined", "true", "false"}

makeConfig(schemaOpt, autoOpt) ==
    Spread(IF schemaOpt = "undefined" THEN <<>> ELSE [schema |-> schemaOpt],
           IF autoOpt = "undefined" THEN <<>>
           ELSE [autoAssignIds |-> (autoOpt = "true")])

\* the objects the backend can return under the schema in effect: the SDK
\* has validated them, so under the built-in schema every container has
\* children and every form has fields (the schema's defaults)
Parsed(shape) ==
    LET all == NodeList(shape) IN
    \A i \in 1..Len(all) :
        LET nd == all[i]
        IN  /\ nd.type = "container" => Has(nd, "children")
            /\ nd.type = "form" => Has(nd.props, "fields")

ParsedShapes ==
    {s \in UNION {ForestShapes(n) : n \in 0..MaxResponseNodes} : Parsed(s)}

Envelope(ui) == [messages |-> <<>>, ui |-> ui, actions |-> <<>>, suggestions |-> <<>>]

BuiltInObjects ==
    {Envelope(labelForest(s, plan, 1).out) :
        s \in ParsedShapes, plan \in [1..MaxResponseNodes -> IdOptions]}

CustomObjects ==
    {[answer |-> "42"],
     [answer |-> "42", ui |-> <<TextShape, Spread(TextShape, [id |-> "a"])>>]}

ValidObjects(cfg) ==
    IF Has(cfg, "schema") /\ cfg.schema = "CustomSchema"
    THEN CustomObjects
    ELSE BuiltInObjects

\* what a rejected backend call throws: a failed API call, a missing
\* credential (the key is read when the request is built), output that does
\* not validate against the schema
BackendErrors == {"APICallError", "LoadAPIKeyError", "TypeValidationError"}

\* what a caller-supplied provider can throw while the model is resolved
ProviderErrors == {"LoadAPIKeyError"}

\* config?.autoAssignIds ?? true
autoAssignIds(cfg) == IF Has(cfg, "autoAssignIds") THEN cfg.autoAssignIds ELSE TRUE

\* Mutation of normalizes: the schema is compared with the built-in one
\* instead of with undefined.
normalizes_BuiltInByIdentity(cfg) ==
    autoAssignIds(cfg) /\ (~Has(cfg, "schema") \/ cfg.schema = "AgentResponseSchema")

\* autoAssignIds && config?.schema === undefined
normalizes(cfg) == autoAssignIds(cfg) /\ ~Has(cfg, "schema")

\* the statements after the await when the backend returned an object:
\* how the promise settles, and the identifiers handed out afterwards
respondReturn(cfg, response, n) ==
    IF normalizes(cfg)
    THEN LET r == ensureIds(response, n)
         IN  [outcome |-> [kind |-> "resolved", value |-> r.out], next |-> r.next]
    ELSE [outcome |-> [kind |-> "resolved", value |-> response], next |-> n]

\* Mutation of fallbackCatch: the error is rethrown.
fallbackCatch_Rethrow(prompt, cfg, err, n) ==
    [outcome |-> [kind |-> "rejected", error |-> err], next |-> n]

\* catch (err) of part_006: the fallback envelope is returned
fallbackCatch(prompt, cfg, err, n) ==
    LET fallback == buildFallbackResponse(prompt)
    IN  IF normalizes(cfg)
        THEN LET r == ensureIds(fallback, n)
             IN  [outcome |-> [kind |-> "resolved", value |-> r.out], next |-> r.next]
        ELSE [outcome |-> [kind |-> "resolved", value |-> fallback], next |-> n]

\* Mutation of rethrowCatch: the error is swallowed and a fallback returned.
rethrowCatch_Swallow(prompt, cfg, err, n) ==
    [outcome |-> [kind |-> "resolved", value |-> buildFallbackResponse(prompt)],
     next |-> n]

\* catch (err) of src/src/agent/index.ts: throw err
rethrowCatch(prompt, cfg, err, n) ==
    [outcome |-> [kind |-> "rejected", error |-> err], next |-> n]

respondCatch(variant, prompt, cfg, err, n) ==
    IF variant = "fallback"
    THEN fallbackCatch(prompt, cfg, err, n)
    ELSE rethrowCatch(prompt, cfg, err, n)

----------------------------------------------------------------------------
(* respond up to the backend call: effective configuration, model            *)
(* resolution, generateConfig.  A value of the llm record is tagged with     *)
(* its JavaScript type, so that a key present with the value undefined       *)
(* differs from an absent key.                                               *)

JsUndefined == [t |-> "undefined"]
JsNumber(v) == [t |-> "number", v |-> v]
JsString(v) == [t |-> "string", v |-> v]
JsObject(v) == [t |-> "object", v |-> v]
JsFunction(v) == [t |-> "function", v |-> v]

\* o.k: the value of the key, undefined when the key is absent
Get(o, k) == IF Has(o, k) THEN o[k] ELSE JsUndefined

\* DEFAULT_LLM_CONFIG of the variant
DEFAULT_LLM_CONFIG(variant) ==
    [model |-> JsString("gpt-4o-mini"),
     temperature |-> JsNumber(IF variant = "fallback" THEN "0.3" ELSE "1")]

\* BUILT_IN_SYSTEM_PROMPT, and the sentence part_006 appends to the system
\* prompt; a message content is a sequence of pieces of text
BUILT_IN_SYSTEM_PROMPT == <<"You are Dynamic UI Agent. ...">>
ToolInstruction ==
    <<"\n\nYou MUST call the emitResponse tool with a valid response object. Do not output free text.">>

\* { ...DEFAULT_LLM_CONFIG, ...config?.llm }
effectiveLlmConfig(variant, cfg) ==
    Spread(DEFAULT_LLM_CONFIG(variant), IF Has(cfg, "llm") THEN cfg.llm ELSE <<>>)

\* the model resolution of respond: is the caller's provider called?
callsProvider(llmConfig) ==
    Get(llmConfig, "model").t = "string" /\ Get(llmConfig, "provider").t # "undefined"

\* the model resolution of respond, when no provider throws
resolveModel(llmConfig) ==
    LET m == Get(llmConfig, "model")
    IN  IF m.t = "string"
        THEN [provider |-> IF Get(llmConfig, "provider").t = "undefined"
                           THEN "openai" ELSE Get(llmConfig, "provider").v,
              modelId  |-> m.v]
        ELSE IF m.t # "undefined"
        THEN [instance |-> m.v]
        ELSE [provider |-> "openai", modelId |-> DEFAULT_LLM_CONFIG("fallback").model.v]

\* Mutation of buildMessages: the history comes after the user prompt.
buildMessages_HistoryLast(variant, prompt, cfg) ==
    <<[role |-> "system", content |-> BUILT_IN_SYSTEM_PROMPT]>>
    \o <<[role |-> "user", content |-> prompt]>>
    \o (IF Has(cfg, "history") THEN cfg.history ELSE <<>>)

\* generateConfig.messages
buildMessages(variant, prompt, cfg) ==
    LET systemPrompt == IF Has(cfg, "systemPrompt") THEN cfg.systemPrompt
                        ELSE BUILT_IN_SYSTEM_PROMPT
        history == IF Has(cfg, "history") THEN cfg.history ELSE <<>>
    IN  <<[role |-> "system",
           content |-> IF variant = "fallback"
                       THEN systemPrompt \o ToolInstruction
                       ELSE systemPrompt]>>
        \o history
        \o <<[role |-> "user", content |-> prompt]>>

\* the optional LLM parameters: a key is copied when its value is not undefined
optionalParameters(llmConfig) ==
    LET copied == {k \in {"temperature", "maxTokens", "topP"} :
                      Get(llmConfig, k).t # "undefined"}
    IN  [k \in copied |-> llmConfig[k]]

\* generateConfig as handed to generateText (part_006) or generateObject
buildGenerateConfig(variant, prompt, cfg) ==
    LET llmConfig == effectiveLlmConfig(variant, cfg)
        schema == IF Has(cfg, "schema") THEN cfg.schema ELSE "AgentResponseSchema"
        base == IF variant = "fallback"
                THEN [model |-> resolveModel(llmConfig),
                      tools |-> [emitResponse |-> [parameters |-> schema]],
                      toolChoice |-> "required",
                      messages |-> buildMessages(variant, prompt, cfg)]
                ELSE [model |-> resolveModel(llmConfig),
                      schema |-> schema,
                      messages |-> buildMessages(variant, prompt, cfg)]
    IN  Spread(base, optionalParameters(llmConfig))

NormalizerIdle ==
    /\ nodes = <<>>
    /\ normalized = <<>>
    /\ renormalized = <<>>
    /\ npc = "idle"

Init ==
    /\ NormalizerIdle
    /\ ValidatorIdle
    /\ AgentIdle
    /\ ChatIdle
    /\ uuids = 0
    /\ impl \in {"fallback", "rethrow"}
    /\ userPrompt \in Prompts
    /\ \E schemaOpt \in SchemaOptions, autoOpt \in AutoAssignOptions,
          llm \in {<<>>, [llm |-> [provider |-> JsFunction("anthropic")]]} :
           config = Spread(makeConfig(schemaOpt, autoOpt), llm)
    /\ model = "unresolved"
    /\ pc = "start"
    /\ request = <<>>
    /\ backend = [kind |-> "idle"]
    /\ outcome = [kind |-> "pending"]
    /\ calls = 0

\* respond up to the await: the model is resolved and the backend is called
Invoke ==
    /\ pc = "start"
    /\ model' = "LanguageModel"
    /\ request' = buildGenerateConfig(impl, userPrompt, config)
    /\ backend' = [kind |-> "pending"]
    /\ calls' = calls + 1
    /\ pc' = "awaiting"
    /\ UNCHANGED <<impl, userPrompt, config, outcome, uuids>>
    /\ UNCHANGED normVars
    /\ UNCHANGED valVars
    /\ UNCHANGED agentVars
    /\ UNCHANGED chatVars

\* the provider throws while the model is resolved, outside the try block
InvokeProviderThrows ==
    /\ pc = "start"
    /\ callsProvider(effectiveLlmConfig(impl, config))
    /\ \E err \in ProviderErrors :
           outcome' = [kind |-> "rejected", error |-> err]
    /\ model' = "threw"
    /\ pc' = "done"
    /\ UNCHANGED <<impl, userPrompt, config, request, backend, uuids, calls>>
    /\ UNCHANGED normVars
    /\ UNCHANGED valVars
    /\ UNCHANGED agentVars
    /\ UNCHANGED chatVars

\* the backend call resolves with an object that validates against the schema
BackendResolves ==
    /\ pc = "awaiting"
    /\ \E object \in ValidObjects(config) :
           LET r == respondReturn(config, object, uuids)
           IN  /\ backend' = [kind |-> "object", object |-> object]
               /\ outcome' = r.outcome
               /\ uuids' = r.next
    /\ pc' = "done"
    /\ UNCHANGED <<impl, userPrompt, config, model, request, calls>>
    /\ UNCHANGED normVars
    /\ UNCHANGED valVars
    /\ UNCHANGED agentVars
    /\ UNCHANGED chatVars

\* generateText resolves without a tool call (part_006 only: generateObject
\* has no tool calls): respond throws inside its try block
BackendNoToolCall ==
    /\ pc = "awaiting"
    /\ impl = "fallback"
    /\ LET r == respondCatch(impl, userPrompt, config,
                             "Model did not call the required tool", uuids)
       IN  /\ outcome' = r.outcome
           /\ uuids' = r.next
    /\ backend' = [kind |-> "no_tool_call"]
    /\ pc' = "done"
    /\ UNCHANGED <<impl, userPrompt, config, model, request, calls>>
    /\ UNCHANGED normVars
    /\ UNCHANGED valVars
    /\ UNCHANGED agentVars
    /\ UNCHANGED chatVars

\* Mutation of BackendRejects: the first rejection is answered by calling the
\* backend again.
BackendRejects_Retry ==
    /\ pc = "awaiting"
    /\ IF calls < 2
       THEN /\ \E err \in BackendErrors : backend' = [kind |-> "error", error |-> err]
            /\ calls' = calls + 1
            /\ pc' = "awaiting"
            /\ UNCHANGED <<outcome, uuids>>
       ELSE /\ \E err \in BackendErrors :
                   LET r == respondCatch(impl, userPrompt, config, err, uuids)
                   IN  /\ backend' = [kind |-> "error", error |-> err]
                       /\ outcome' = r.outcome
                       /\ uuids' = r.next
            /\ pc' = "done"
            /\ UNCHANGED calls
    /\ UNCHANGED <<impl, userPrompt, config, model, request>>
    /\ UNCHANGED normVars
    /\ UNCHANGED valVars
    /\ UNCHANGED agentVars
    /\ UNCHANGED chatVars

\* the backend call rejects
BackendRejects ==
    /\ pc = "awaiting"
    /\ \E err \in BackendErrors :
           LET r == respondCatch(impl, userPrompt, config, err, uuids)
           IN  /\ backend' = [kind |-> "error", error |-> err]
               /\ outcome' = r.outcome
               /\ uuids' = r.next
    /\ pc' = "done"
    /\ UNCHANGED <<impl, userPrompt, config, model, request, calls>>
    /\ UNCHANGED normVars
    /\ UNCHANGED valVars
    /\ UNCHANGED agentVars
    /\ UNCHANGED chatVars

Next ==
    \/ Invoke
    \/ InvokeProviderThrows
    \/ BackendResolves
    \/ BackendNoToolCall
    \/ BackendRejects

Spec == Init /\ [][Next]_vars

----------------------------------------------------------------------------
(* respond up to the backend call, over the request-shaping options:         *)
(* config.history, config.systemPrompt and config.llm.                       *)

HistoryMessages ==
    {[role |-> "user", content |-> <<"H", "i">>],
     [role |-> "assistant", content |-> <<"O", "k">>],
     [role |-> "system", content |-> <<"B", "e">>]}

Histories == UNION {[1..n -> HistoryMessages] : n \in 0..MaxHistory}

SystemPromptOptions == {<<>>, [systemPrompt |-> <<"Be brief.">>]}

ModelOptions ==
    {<<>>, [model |-> JsUndefined], [model |-> JsString("gpt-4o")],
     [model |-> JsObject("claude")]}
ProviderOptions == {<<>>, [provider |-> JsFunction("anthropic")]}
TemperatureOptions ==
    {<<>>, [temperature |-> JsUndefined], [temperature |-> JsNumber("0.7")]}
MaxTokensOptions ==
    {<<>>, [maxTokens |-> JsUndefined], [maxTokens |-> JsNumber("256")]}
TopPOptions == {<<>>, [topP |-> JsUndefined], [topP |-> JsNumber("0.9")]}

RequestPrompts == {p \in Prompts : Len(p) <= 2}

InitRequest ==
    /\ NormalizerIdle
    /\ ValidatorIdle
    /\ AgentIdle
    /\ ChatIdle
    /\ uuids = 0
    /\ impl \in {"fallback", "rethrow"}
    /\ userPrompt \in RequestPrompts
    /\ \E withHistory \in BOOLEAN, history \in Histories,
          sys \in SystemPromptOptions, withLlm \in BOOLEAN,
          m \in ModelOptions, p \in ProviderOptions, t \in TemperatureOptions,
          k \in MaxTokensOptions, q \in TopPOptions :
           config =
               Spread(Spread(IF withHistory THEN [history |-> history] ELSE <<>>, sys),
                      IF withLlm
                      THEN [llm |-> Spread(Spread(Spread(Spread(m, p), t), k), q)]
                      ELSE <<>>)
    /\ model = "unresolved"
    /\ pc = "start"
    /\ request = <<>>
    /\ backend = [kind |-> "idle"]
    /\ outcome = [kind |-> "pending"]
    /\ calls = 0

NextRequest ==
    \/ Invoke
    \/ InvokeProviderThrows

SpecRequest == InitRequest /\ [][NextRequest]_vars

----------------------------------------------------------------------------
(* buildFallbackResponse called on its own, over prompts made of up to       *)
(* MaxWords words: the vocabulary of both rules in mixed case, a word of     *)
(* neither, a space, and two halves of a pricing word.                       *)

FallbackWords ==
    {<<"P", "r", "i", "c", "i", "n", "g">>,
     <<"P", "L", "A", "N", "S">>,
     <<"t", "i", "e", "r">>,
     <<"D", "a", "s", "h", "b", "o", "a", "r", "d">>,
     <<"S", "t", "a", "t">>,
     <<"k", "p", "i">>,
     <<"M", "E", "T", "R", "I", "C">>,
     <<"c", "a", "r", "d">>,
     <<"H", "e", "l", "l", "o">>,
     <<" ">>,
     <<"P", "r", "i", "c">>,
     <<"i", "n", "g">>}

RECURSIVE Concat(_)
Concat(ws) == IF ws = <<>> THEN <<>> ELSE Head(ws) \o Concat(Tail(ws))

FallbackPrompts ==
    {Concat(ws) : ws \in UNION {[1..n -> FallbackWords] : n \in 0..MaxWords}}

InitFallback ==
    /\ NormalizerIdle
    /\ ValidatorIdle
    /\ AgentIdle
    /\ ChatIdle
    /\ uuids = 0
    /\ impl = "buildFallbackResponse"
    /\ userPrompt \in FallbackPrompts
    /\ config = <<>>
    /\ model = "unresolved"
    /\ pc = "synthesize"
    /\ request = <<>>
    /\ backend = [kind |-> "idle"]
    /\ outcome = [kind |-> "pending"]
    /\ calls = 0

Synthesize ==
    /\ pc = "synthesize"
    /\ outcome' = [kind |-> "resolved", value |-> buildFallbackResponse(userPrompt)]
    /\ pc' = "done"
    /\ UNCHANGED <<impl, userPrompt, config, model, request, backend, uuids, calls>>
    /\ UNCHANGED normVars
    /\ UNCHANGED valVars
    /\ UNCHANGED agentVars
    /\ UNCHANGED chatVars

NextFallback == Synthesize

SpecFallback == InitFallback /\ [][NextFallback]_vars

----------------------------------------------------------------------------
(* UIElementSchema.safeParse called on its own, over nodes of every type     *)
(* whose defaulted props are absent, supplied inside the declared domain or  *)
(* supplied outside it.                                                      *)

\* a key that is absent, or present with one of the values
Optional(k, values) == {<<>>} \cup {[key \in {k} |-> v] : v \in values}

LevelProbes == {Whole(n) : n \in {0, 1, 2, 3, 4, 5, 9}} \cup {Number(2, 5), Number(4, 5)}
GapProbes == {-1, 0, 8, 12, 48, 49}

RawText ==
    {[type |-> "text", props |-> Spread(t, v)] :
        t \in Optional("text", {<<"h", "i">>}),
        v \in Optional("variant", TextVariants \cup {"bold"})}

RawHeading ==
    {[type |-> "heading", props |-> Spread([text |-> <<"H", "i">>], l)] :
        l \in Optional("level", LevelProbes)}

RawButton ==
    {[type |-> "button", props |-> Spread([label |-> "Go"], v)] :
        v \in Optional("variant", ButtonVariants \cup {"ghost"})}

RawInput ==
    {[type |-> "input", props |-> Spread(n, t)] :
        n \in Optional("name", {"email"}),
        t \in Optional("inputType", InputTypes \cup {"color"})}

RawForm ==
    {[type |-> "form", props |-> Spread(f, l)] :
        f \in Optional("fields", {<<>>, <<InputShape>>,
                                  <<[type |-> "input", props |-> [name |-> "age", inputType |-> "number"],
                                     id |-> "a"]>>,
                                  <<InputShape, InputShape>>,
                                  <<TextShape>>,
                                  <<InputShape, [type |-> "button", props |-> [label |-> "Go"]]>>,
                                  <<[type |-> "container", props |-> <<>>, children |-> <<>>], InputShape>>,
                                  <<FormShape>>,
                                  <<[type |-> "input", props |-> <<>>]>>}),
        l \in Optional("submitLabel", {"Send"})}

RawCode ==
    {[type |-> "code", props |-> Spread([code |-> "x = 1"], l)] :
        l \in Optional("language", {"ts"})}

RawChildren ==
    Optional("children",
             {<<>>,
              <<[type |-> "heading", props |-> [text |-> <<"H", "i">>]]>>,
              <<[type |-> "container", props |-> <<>>], TextShape>>,
              <<[type |-> "heading", props |-> [text |-> <<"H", "i">>, level |-> Whole(5)]]>>})

RawOther ==
    {[type |-> "video", props |-> <<>>],
     [type |-> "container"],
     [props |-> [text |-> <<"h", "i">>]],
     [type |-> "text", props |-> [text |-> <<"h", "i">>], children |-> <<TextShape>>],
     [type |-> "heading", props |-> [text |-> <<"H", "i">>, variant |-> "muted"], id |-> "a"],
     [type |-> "list", props |-> [items |-> <<"one", "two">>]],
     [type |-> "table", props |-> [columns |-> <<[key |-> "tier", header |-> "Tier"]>>,
                                   rows |-> <<[tier |-> "Basic"]>>]]}

\* the node inside depth containers, each of which has a text before it
RECURSIVE Wrap(_, _)
Wrap(node, depth) ==
    IF depth = 0 THEN node
    ELSE [type |-> "container", props |-> <<>>,
          children |-> <<TextShape, Wrap(node, depth - 1)>>]

InitSchema ==
    /\ NormalizerIdle
    /\ RespondIdle
    /\ AgentIdle
    /\ ChatIdle
    /\ uuids = 0
    /\ \/ \E node \in RawText \cup RawHeading \cup RawButton \cup RawInput
                        \cup RawForm \cup RawCode \cup RawOther,
             depth \in 0..MaxDepth :
              raw = Wrap(node, depth)
       \/ \E d \in Optional("direction", Directions \cup {"diagonal"}),
             g \in Optional("gap", GapProbes),
             a \in Optional("align", {"start", "stretch", "between"}),
             j \in Optional("justify", {"start", "between", "stretch"}),
             c \in RawChildren :
              raw = Spread([type |-> "container",
                            props |-> Spread(Spread(Spread(d, g), a), j)], c)
    /\ validated = <<>>
    /\ vpc = "input"

Validate ==
    /\ vpc = "input"
    /\ validated' = safeParse(raw)
    /\ vpc' = "done"
    /\ UNCHANGED <<raw, uuids>>
    /\ UNCHANGED normVars
    /\ UNCHANGED respVars
    /\ UNCHANGED agentVars
    /\ UNCHANGED chatVars

\* AgentResponseSchema.safeParse on the envelope whose ui is the node
ValidateEnvelope ==
    /\ vpc = "input"
    /\ validated' = safeParseResponse([ui |-> <<raw>>])
    /\ vpc' = "envelope"
    /\ UNCHANGED <<raw, uuids>>
    /\ UNCHANGED normVars
    /\ UNCHANGED respVars
    /\ UNCHANGED agentVars
    /\ UNCHANGED chatVars

NextSchema ==
    \/ Validate
    \/ ValidateEnvelope

SpecSchema == InitSchema /\ [][NextSchema]_vars

----------------------------------------------------------------------------
(* createAgent(config): every agent.respond(p) is respond(p, config) with    *)
(* the one config object the agent was created with.  The invocations run    *)
(* one after another or overlap at their awaits, in any order.               *)

AgentPrompts == {<<"H", "i">>, <<"C", "a", "r", "d">>}

AgentHistories ==
    {<<>>, [history |-> <<>>],
     [history |-> <<[role |-> "user", content |-> <<"O", "l", "d">>],
                    [role |-> "assistant", content |-> <<"O", "k">>]>>]}

\* the objects the backend returns to an invocation of the agent
AgentBuiltInObjects ==
    {o \in BuiltInObjects :
        Len(NodeList(o.ui)) <= 1 /\ \A k \in 1..Len(o.ui) : o.ui[k].type = "text"}
AgentObjects(cfg) ==
    IF Has(cfg, "schema") /\ cfg.schema = "CustomSchema"
    THEN CustomObjects
    ELSE AgentBuiltInObjects

NotInvoked ==
    [pc |-> "idle", prompt |-> <<>>, after |-> {}, request |-> <<>>,
     backend |-> [kind |-> "idle"], outcome |-> [kind |-> "pending"]]

InitAgent ==
    /\ NormalizerIdle
    /\ ValidatorIdle
    /\ ChatIdle
    /\ uuids = 0
    /\ impl \in {"fallback", "rethrow"}
    /\ \E schemaOpt \in {"undefined", "CustomSchema"}, history \in AgentHistories :
           config = Spread(makeConfig(schemaOpt, "undefined"), history)
    /\ userPrompt = <<>>
    /\ model = "unresolved"
    /\ pc = "idle"
    /\ request = <<>>
    /\ backend = [kind |-> "idle"]
    /\ outcome = [kind |-> "pending"]
    /\ calls = 0
    /\ inv = [i \in 1..MaxCalls |-> NotInvoked]

\* agent.respond(prompt) up to the await; after records the invocations that
\* had completed when this one was made
AgentRespond(i) ==
    /\ inv[i].pc = "idle"
    /\ \E prompt \in AgentPrompts :
          inv' = [inv EXCEPT ![i] =
                    [pc |-> "awaiting",
                     prompt |-> prompt,
                     after |-> {j \in DOMAIN inv : inv[j].pc = "done"},
                     request |-> buildGenerateConfig(impl, prompt, config),
                     backend |-> [kind |-> "pending"],
                     outcome |-> [kind |-> "pending"]]]
    /\ UNCHANGED <<uuids, normVars, respVars, valVars, chatVars>>

\* Mutation of AgentBackendResolves: the result of an invocation that has
\* already resolved is reused (request coalescing).
AgentBackendResolves_Coalesced(i) ==
    /\ inv[i].pc = "awaiting"
    /\ \E object \in AgentObjects(config) :
          LET r == respondReturn(config, object, uuids)
              cached == {j \in DOMAIN inv : inv[j].pc = "done" /\ inv[j].outcome.kind = "resolved"}
          IN  /\ inv' = [inv EXCEPT ![i].pc = "done",
                                    ![i].backend = [kind |-> "object", object |-> object],
                                    ![i].outcome = IF cached = {} THEN r.outcome
                                                   ELSE inv[CHOOSE j \in cached : TRUE].outcome]
              /\ uuids' = r.next
    /\ UNCHANGED <<normVars, respVars, valVars, chatVars>>

\* the statements after the await of invocation i
AgentBackendResolves(i) ==
    /\ inv[i].pc = "awaiting"
    /\ \E object \in AgentObjects(config) :
          LET r == respondReturn(config, object, uuids)
          IN  /\ inv' = [inv EXCEPT ![i].pc = "done",
                                    ![i].backend = [kind |-> "object", object |-> object],
                                    ![i].outcome = r.outcome]
              /\ uuids' = r.next
    /\ UNCHANGED <<normVars, respVars, valVars, chatVars>>

AgentBackendNoToolCall(i) ==
    /\ inv[i].pc = "awaiting"
    /\ impl = "fallback"
    /\ LET r == respondCatch(impl, inv[i].prompt, config,
                             "Model did not call the required tool", uuids)
       IN  /\ inv' = [inv EXCEPT ![i].pc = "done",
                                 ![i].backend = [kind |-> "no_tool_call"],
                                 ![i].outcome = r.outcome]
           /\ uuids' = r.next
    /\ UNCHANGED <<normVars, respVars, valVars, chatVars>>

AgentBackendRejects(i) ==
    /\ inv[i].pc = "awaiting"
    /\ LET err == "APICallError"
           r == respondCatch(impl, inv[i].prompt, config, err, uuids)
       IN  /\ inv' = [inv EXCEPT ![i].pc = "done",
                                 ![i].backend = [kind |-> "error", error |-> err],
                                 ![i].outcome = r.outcome]
           /\ uuids' = r.next
    /\ UNCHANGED <<normVars, respVars, valVars, chatVars>>

NextAgent ==
    \E i \in 1..MaxCalls :
        \/ AgentRespond(i)
        \/ AgentBackendResolves(i)
        \/ AgentBackendNoToolCall(i)
        \/ AgentBackendRejects(i)

SpecAgent == InitAgent /\ [][NextAgent]_vars

----------------------------------------------------------------------------
(* The normalizer called standalone, or one respond invocation: the runs in  *)
(* which the arguments of assignIdsToTree and of respond can be observed     *)
(* before and after the call.                                                *)

InitEither == InitNormalizer \/ Init

NextEither == NextNormalizer \/ Next

SpecEither == InitEither /\ [][NextEither]_vars

----------------------------------------------------------------------------
(* The chat page (app/page.tsx) and the /api/chat route (part_005).  The     *)
(* three useState cells hold the state with every queued update applied;     *)
(* handleSubmit is a closure of the last render and reads `rendered`.  The   *)
(* updates of an event handler (submit, change, click) are rendered before   *)
(* the next event is dispatched; those a continuation makes after an await   *)
(* are rendered by a later Render step.                                      *)

\* largest number of submit events
MaxSubmits == 2

\* String.prototype.trim over a sequence of characters
trimStart(s) ==
    LET starts == {i \in 1..Len(s) : s[i] # " "}
    IN  IF starts = {} THEN <<>>
        ELSE SubSeq(s, CHOOSE i \in starts : \A j \in starts : i <= j, Len(s))

trimEnd(s) ==
    LET ends == {i \in 1..Len(s) : s[i] # " "}
    IN  IF ends = {} THEN <<>>
        ELSE SubSeq(s, 1, CHOOSE i \in ends : \A j \in ends : i >= j)

trim(s) == trimEnd(trimStart(s))

\* what the user can put into the input field: typed text, or a suggestion
ChatInputs ==
    {<<>>, <<" ">>, <<"H", "i">>, <<" ", "O", "k", " ">>}

\* JSON.stringify and JSON.parse: a JSON text is a piece of its own kind
JSONstringify(v) == [json |-> v]
JSONparse(piece) == piece.json

TextPiece(t) == [text |-> t]
isNewline(piece) == Has(piece, "text") /\ piece.text = "\n"

\* the objects respond resolves with in the route: with a description, with
\* an empty one, without one
ChatObjects ==
    {[ui |-> <<>>],
     [ui |-> <<>>, description |-> <<>>],
     [ui |-> <<[type |-> "text", props |-> [text |-> <<"h", "i">>]]>>,
      description |-> <<"A greeting">>]}

\* how `await respond(lastMessage.content, { history })` settles in the route
RespondOutcomes ==
    {[kind |-> "resolved", value |-> object] : object \in ChatObjects}
        \cup {[kind |-> "rejected"]}

\* POST of part_005, given how its respond call settles: the request it
\* serves and the Response it returns
POST(body, settled) ==
    LET lastMessage == body.messages[Len(body.messages)]
        history == SubSeq(body.messages, 1, Len(body.messages) - 1)
        served == [userPrompt |-> lastMessage.content, history |-> history]
    IN  IF settled.kind = "resolved"
        THEN LET data == JSONstringify([type |-> "ui", data |-> settled.value])
             IN  [ok |-> TRUE, status |-> 200, served |-> served,
                  body |-> <<TextPiece("0:"), JSONstringify(data), TextPiece("\n")>>]
        ELSE [ok |-> FALSE, status |-> 500, served |-> served,
              body |-> <<JSONstringify([error |-> "Failed to generate response"])>>]

\* text.split('\n'): the pieces between the newlines
RECURSIVE split(_, _)
split(text, line) ==
    IF text = <<>> THEN <<line>>
    ELSE IF isNewline(Head(text))
    THEN <<line>> \o split(Tail(text), <<>>)
    ELSE split(Tail(text), Append(line, Head(text)))

\* .filter(Boolean): the empty strings are dropped
RECURSIVE filterBoolean(_)
filterBoolean(lines) ==
    IF lines = <<>> THEN <<>>
    ELSE IF Head(lines) = <<>>
    THEN filterBoolean(Tail(lines))
    ELSE <<Head(lines)>> \o filterBoolean(Tail(lines))

startsWithZero(line) == Has(line[1], "text") /\ line[1].text = "0:"

assistantMessage(data) ==
    [role |-> "assistant",
     content |-> IF Has(data, "description") /\ data.description # <<>>
                 THEN data.description
                 ELSE <<"Generated UI component">>,
     ui |-> data]

errorMessage ==
    [role |-> "assistant",
     content |-> <<"Sorry, I encountered an error generating the UI.">>]

\* the loop of handleSubmit over the lines: the messages it appends
RECURSIVE parseLines(_)
parseLines(lines) ==
    IF lines = <<>> THEN <<>>
    ELSE LET line == Head(lines)
         IN  IF startsWithZero(line)
             THEN LET jsonStr == Tail(line)[1]
                      parsed == JSONparse(JSONparse(jsonStr))
                  IN  (IF parsed.type = "ui"
                       THEN <<assistantMessage(parsed.data)>>
                       ELSE <<>>) \o parseLines(Tail(lines))
             ELSE parseLines(Tail(lines))

\* messages.map((m) => ({ role: m.role, content: m.content }))
RECURSIVE requestMessages(_)
requestMessages(list) ==
    IF list = <<>> THEN <<>>
    ELSE <<[role |-> Head(list).role, content |-> Head(list).content]>>
             \o requestMessages(Tail(list))

Current == [messages |-> pageMessages, input |-> input, isLoading |-> isLoading]

OthersIdle == UNCHANGED <<uuids, normVars, respVars, valVars, agentVars>>

InitChat ==
    /\ NormalizerIdle
    /\ RespondIdle
    /\ ValidatorIdle
    /\ AgentIdle
    /\ uuids = 0
    /\ ChatIdle

\* onChange of the input field, or a click on a suggestion: setInput
Type ==
    /\ \E text \in ChatInputs :
           /\ text # input
           /\ input' = text
           /\ rendered' = [rendered EXCEPT !.input = text]
    /\ UNCHANGED <<pageMessages, isLoading, runs>>
    /\ OthersIdle

\* Mutation of Submit: the handler does not look at isLoading.
Submit_NoLoadingGuard ==
    /\ Len(runs) < MaxSubmits
    /\ IF trim(rendered.input) = <<>>
       THEN /\ runs' = Append(runs, [pc |-> "returned"])
            /\ UNCHANGED <<pageMessages, input, isLoading, rendered>>
       ELSE LET userMessage == [role |-> "user", content |-> trim(rendered.input)]
                body == [messages |->
                            requestMessages(Append(rendered.messages, userMessage))]
            IN  /\ pageMessages' = Append(pageMessages, userMessage)
                /\ input' = <<>>
                /\ isLoading' = TRUE
                /\ rendered' = [messages |-> pageMessages', input |-> <<>>,
                                isLoading |-> TRUE]
                /\ runs' = Append(runs, [pc |-> "fetching",
                                         userMessage |-> userMessage,
                                         body |-> body])
    /\ OthersIdle

\* a submit event: handleSubmit up to `await fetch`
Submit ==
    /\ Len(runs) < MaxSubmits
    /\ IF trim(rendered.input) = <<>> \/ rendered.isLoading
       THEN /\ runs' = Append(runs, [pc |-> "returned"])
            /\ UNCHANGED <<pageMessages, input, isLoading, rendered>>
       ELSE LET userMessage == [role |-> "user", content |-> trim(rendered.input)]
                body == [messages |->
                            requestMessages(Append(rendered.messages, userMessage))]
            IN  /\ pageMessages' = Append(pageMessages, userMessage)
                /\ input' = <<>>
                /\ isLoading' = TRUE
                /\ rendered' = [messages |-> pageMessages', input |-> <<>>,
                                isLoading |-> TRUE]
                /\ runs' = Append(runs, [pc |-> "fetching",
                                         userMessage |-> userMessage,
                                         body |-> body])
    /\ OthersIdle

\* the catch and finally blocks of handleSubmit
CatchFinally(i, how) ==
    /\ pageMessages' = Append(pageMessages, errorMessage)
    /\ isLoading' = FALSE
    /\ runs' = [runs EXCEPT ![i] = [pc |-> "done", userMessage |-> runs[i].userMessage,
                                    body |-> runs[i].body, ended |-> how]]

\* fetch rejects (the request never got an answer): catch, finally
FetchRejects(i) ==
    /\ runs[i].pc = "fetching"
    /\ CatchFinally(i, "fetch_threw")
    /\ UNCHANGED <<input, rendered>>
    /\ OthersIdle

\* the route answers and fetch resolves: a non-OK status throws, an OK one
\* goes on to `await response.text()`
FetchResolves(i) ==
    /\ runs[i].pc = "fetching"
    /\ \E settled \in RespondOutcomes :
           LET response == POST(runs[i].body, settled)
           IN  IF ~response.ok
               THEN CatchFinally(i, "not_ok")
               ELSE /\ runs' = [runs EXCEPT ![i] =
                                   [pc |-> "reading",
                                    userMessage |-> runs[i].userMessage,
                                    body |-> runs[i].body,
                                    response |-> response]]
                    /\ UNCHANGED <<pageMessages, isLoading>>
    /\ UNCHANGED <<input, rendered>>
    /\ OthersIdle

\* response.text() resolves: the lines are parsed, finally
TextResolves(i) ==
    /\ runs[i].pc = "reading"
    /\ LET lines == filterBoolean(split(runs[i].response.body, <<>>))
       IN  pageMessages' = pageMessages \o parseLines(lines)
    /\ isLoading' = FALSE
    /\ runs' = [runs EXCEPT ![i] = [pc |-> "done", userMessage |-> runs[i].userMessage,
                                    body |-> runs[i].body, ended |-> "ok"]]
    /\ UNCHANGED <<input, rendered>>
    /\ OthersIdle

\* response.text() rejects (the body could not be read): catch, finally
TextRejects(i) ==
    /\ runs[i].pc = "reading"
    /\ CatchFinally(i, "text_threw")
    /\ UNCHANGED <<input, rendered>>
    /\ OthersIdle

\* the page renders the updates made after an await
Render ==
    /\ rendered # Current
    /\ rendered' = Current
    /\ UNCHANGED <<pageMessages, input, isLoading, runs>>
    /\ OthersIdle

NextChat ==
    \/ Type
    \/ Submit
    \/ \E i \in 1..Len(runs) : FetchRejects(i)
    \/ \E i \in 1..Len(runs) : FetchResolves(i)
    \/ \E i \in 1..Len(runs) : TextResolves(i)
    \/ \E i \in 1..Len(runs) : TextRejects(i)
    \/ Render

SpecChat == InitChat /\ [][NextChat]_vars

----------------------------------------------------------------------------
(* Claims about the normalizer (checked under SpecNormalizer) *)

\* the ids of the nodes of a forest that have one, in document order
IdsOf(forest) ==
    LET identified == SelectSeq(NodeList(forest), LAMBDA nd : Has(nd, "id"))
    IN  [i \in 1..Len(identified) |-> identified[i].id]

Distinct(seq) == \A i, j \in 1..Len(seq) : i # j => seq[i] # seq[j]

\* the positions (document order) of the input nodes that have no id
Unidentified(forest) ==
    LET all == NodeList(forest)
    IN  {i \in 1..Len(all) : ~Has(all[i], "id")}

\* a form with at least one field sits inside a container
HasNestedFormWithFields(forest) ==
    LET all == NodeList(forest) IN
    \E i \in 1..Len(all) :
        LET nd == all[i]
        IN  /\ nd.type = "container"
            /\ Has(nd, "children")
            /\ \E j \in 1..Len(nd.children) :
                   /\ nd.children[j].type = "form"
                   /\ Has(nd.children[j].props, "fields")
                   /\ nd.children[j].props.fields # <<>>

\* C1 (as stated): after assignIdsToTree, all ids reachable through children
\* and props.fields are pairwise distinct, whatever ids the input carried.
C1_IdsPairwiseDistinct ==
    npc # "input" => Distinct(IdsOf(normalized))

\* C1 (amended): if the ids the input nodes already carry are pairwise
\* distinct, all ids of assignIdsToTree(nodes) are pairwise distinct: the
\* minted ids differ from each other and from every id of the input.
C1_IdsDistinctWhenCallerIdsDistinct ==
    (npc # "input" /\ Distinct(IdsOf(nodes))) => Distinct(IdsOf(normalized))

\* C1 witness: an input with one caller id and two nodes to mint for, one of
\* them a field of a nested form, has been normalized.
C1_Witness ==
    /\ npc = "once"
    /\ Distinct(IdsOf(nodes))
    /\ Len(IdsOf(nodes)) = 1
    /\ Cardinality(Unidentified(nodes)) = 2
    /\ HasNestedFormWithFields(nodes)

\* C2 (as stated): every node of assignIdsToTree(nodes), at every depth and
\* in every form's fields, has a defined and non-empty id.
C2_EveryNodeHasNonEmptyId ==
    npc # "input" =>
        LET afterAll == NodeList(normalized)
        IN  \A i \in 1..Len(afterAll) :
                /\ Has(afterAll[i], "id")
                /\ afterAll[i].id # ""

\* C2 (amended): every node of assignIdsToTree(nodes) has a defined id, and
\* the id is non-empty unless the input node at that position carried the
\* empty string as its id.
C2_EveryNodeHasId ==
    npc # "input" =>
        LET beforeAll == NodeList(nodes)
            afterAll  == NodeList(normalized)
        IN  /\ Len(afterAll) = Len(beforeAll)
            /\ \A i \in 1..Len(afterAll) :
                   LET after  == afterAll[i]
                       before == beforeAll[i]
                   IN  /\ Has(after, "id")
                       /\ after.id = "" => (Has(before, "id") /\ before.id = "")

\* C2 witness: a container holding a form holding a field, none with an id,
\* has been normalized.
C2_Witness ==
    /\ npc = "once"
    /\ HasNestedFormWithFields(nodes)
    /\ Cardinality(Unidentified(nodes)) = 3

\* C3: a node that carries an id comes back at the same position with
\* exactly that id, and an id is minted only for the nodes that had none.
C3_IdsPreserved ==
    npc = "once" =>
        LET beforeAll == NodeList(nodes)
            afterAll  == NodeList(normalized)
        IN  /\ Len(afterAll) = Len(beforeAll)
            /\ \A i \in 1..Len(beforeAll) :
                   LET before == beforeAll[i]
                       after  == afterAll[i]
                   IN  /\ after.type = before.type
                       /\ Has(before, "id") => (Has(after, "id") /\ after.id = before.id)
            /\ uuids = Cardinality(Unidentified(nodes))

\* C3 witness: a container with an id, holding a form without one whose
\* field has an id, has gone through the normalizer.
C3_Witness ==
    /\ npc = "once"
    /\ Len(nodes) = 1
    /\ nodes[1].type = "container"
    /\ Has(nodes[1], "id")
    /\ Has(nodes[1], "children")
    /\ Len(nodes[1].children) = 1
    /\ nodes[1].children[1].type = "form"
    /\ ~Has(nodes[1].children[1], "id")
    /\ Has(nodes[1].children[1].props, "fields")
    /\ \E f \in 1..Len(nodes[1].children[1].props.fields) :
           Has(nodes[1].children[1].props.fields[f], "id")

\* C4: the second pass returns its input: it mints nothing and changes no
\* id, type, props, children or fields.
C4_Idempotent ==
    [][NormalizeAgain => (renormalized' = normalized /\ uuids' = uuids)]_vars

\* C4 witness: a forest for which the first pass minted ids, fields
\* included, has gone through the second pass.
C4_Witness ==
    /\ npc = "twice"
    /\ HasNestedFormWithFields(nodes)
    /\ uuids >= 2

\* the two forests have the same nodes at the same places: same length at
\* every level, and node by node the same type, the same keys but for id, the
\* same props but for the ids inside props.fields, and children that match
RECURSIVE SameStructure(_, _)
SameStructure(before, after) ==
    /\ Len(after) = Len(before)
    /\ \A i \in 1..Len(before) :
          LET b == before[i]
              a == after[i]
          IN  /\ a.type = b.type
              /\ DOMAIN a \ {"id"} = DOMAIN b \ {"id"}
              /\ Has(b, "props") =>
                    /\ DOMAIN a.props = DOMAIN b.props
                    /\ \A k \in DOMAIN b.props \ {"fields"} : a.props[k] = b.props[k]
                    /\ Has(b.props, "fields") =>
                          /\ Len(a.props.fields) = Len(b.props.fields)
                          /\ \A f \in 1..Len(b.props.fields) :
                                LET af == a.props.fields[f]
                                    bf == b.props.fields[f]
                                IN  /\ DOMAIN af \ {"id"} = DOMAIN bf \ {"id"}
                                    /\ \A k \in DOMAIN bf \ {"id"} : af[k] = bf[k]
              /\ Has(b, "children") => SameStructure(b.children, a.children)

\* C25: assignIdsToTree(F) has the same number of nodes at every level as F,
\* siblings in children and in props.fields are in their original order, and
\* for every node the type, every prop other than the ids inside props.fields
\* and the number of children are unchanged; no children key is added or
\* removed.
C25_StructurePreserved ==
    npc = "once" =>
        /\ SameStructure(nodes, normalized)
        /\ LET beforeAll == NodeList(nodes)
               afterAll  == NodeList(normalized)
           IN  \A i \in 1..Len(beforeAll) :
                  Has(beforeAll[i], "id") =>
                      (Has(afterAll[i], "id") /\ afterAll[i].id = beforeAll[i].id)

\* C25 witness: two different siblings, the first a container with a child,
\* have gone through the normalizer and ids were minted.
C25_Witness ==
    /\ npc = "once"
    /\ Len(nodes) = 2
    /\ nodes[1].type = "container" /\ Has(nodes[1], "children") /\ Len(nodes[1].children) = 1
    /\ nodes[2].type = "text"
    /\ uuids >= 2

----------------------------------------------------------------------------
(* Claims about respond (checked under Spec) *)

\* the schema in effect is the built-in one: none configured, or the
\* built-in AgentResponseSchema passed as config.schema
BuiltInInEffect(cfg) == ~Has(cfg, "schema") \/ cfg.schema = "AgentResponseSchema"

\* the backend call threw, returned no tool call, or returned output that
\* failed validation
BackendFailed == backend.kind = "error" \/ backend.kind = "no_tool_call"

AllHaveIds(forest) ==
    LET all == NodeList(forest)
    IN  \A i \in 1..Len(all) : Has(all[i], "id")

\* a forest with every id key removed
WithoutId(node) == [k \in DOMAIN node \ {"id"} |-> node[k]]

RECURSIVE StripIds(_)
StripIds(forest) ==
    [i \in 1..Len(forest) |->
        LET node == WithoutId(forest[i])
            withChildren ==
                IF Has(node, "children")
                THEN Spread(node, [children |-> StripIds(node.children)])
                ELSE node
        IN  IF Has(node, "props") /\ Has(node.props, "fields")
            THEN Spread(withChildren,
                        [props |-> Spread(node.props,
                            [fields |-> [f \in 1..Len(node.props.fields) |->
                                            WithoutId(node.props.fields[f])]])])
            ELSE withChildren]

\* C5 (as stated): whenever respond resolves with the built-in schema in
\* effect (none configured, or AgentResponseSchema passed explicitly) and
\* autoAssignIds not false, every node of the returned ui carries an id.
C5_BuiltInResultHasIds ==
    (/\ pc = "done"
     /\ outcome.kind = "resolved"
     /\ BuiltInInEffect(config)
     /\ ~(Has(config, "autoAssignIds") /\ config.autoAssignIds = FALSE))
        => AllHaveIds(outcome.value.ui)

C8_CustomSchemaFailureRejects ==
    (/\ pc = "done"
     /\ Has(config, "schema")
     /\ config.schema = "CustomSchema"
     /\ BackendFailed)
        => outcome.kind = "rejected"

\* C9 (as stated): a missing-credential error, raised while the model is
\* resolved or by the backend call, reaches the caller as that error and
\* never ends in a fallback envelope.
C9_MissingCredentialRejects ==
    (/\ pc = "done"
     /\ \/ model = "threw"
        \/ (backend.kind = "error" /\ backend.error = "LoadAPIKeyError"))
        => outcome = [kind |-> "rejected", error |-> "LoadAPIKeyError"]

\* C10: in the respond of src/src/agent/index.ts the error of a failed
\* backend call is rethrown unchanged, for every schema, and nothing is
\* returned.
C10_RethrowsBackendError ==
    (impl = "rethrow" /\ pc = "done" /\ backend.kind = "error")
        => outcome = [kind |-> "rejected", error |-> backend.error]

\* C10 witness: the rethrowing respond, called with a custom schema, has
\* settled after a failed API call.
C10_Witness ==
    /\ impl = "rethrow"
    /\ pc = "done"
    /\ Has(config, "schema")
    /\ backend.kind = "error"
    /\ backend.error = "APICallError"
    /\ outcome.kind = "rejected"

----------------------------------------------------------------------------
(* The request handed to the backend                                         *)

RequestBuilt == pc = "awaiting" /\ Has(request, "messages")

HistoryOf(cfg) == IF Has(cfg, "history") THEN cfg.history ELSE <<>>

SystemPromptOf(cfg) ==
    IF Has(cfg, "systemPrompt") THEN cfg.systemPrompt ELSE BUILT_IN_SYSTEM_PROMPT

\* C11: for every userPrompt and every history of length n, the message
\* sequence handed to the backend has length n+2; its first element is the
\* system message respond builds from the system prompt in effect, elements
\* 2..n+1 are the history messages in their order and unmodified, and the last
\* element is the user message whose content is userPrompt, verbatim.
C11_MessageAssemblyOrder ==
    RequestBuilt =>
        LET history == HistoryOf(config)
            n == Len(history)
            messages == request.messages
            sys == SystemPromptOf(config)
        IN  /\ Len(messages) = n + 2
            /\ messages[1].role = "system"
            /\ Len(messages[1].content) >= Len(sys)
            /\ SubSeq(messages[1].content, 1, Len(sys)) = sys
            /\ \A i \in 1..n : messages[i + 1] = history[i]
            /\ messages[n + 2] = [role |-> "user", content |-> userPrompt]

\* a request built from a history of two different messages and a non-empty
\* prompt
C11_Witness ==
    /\ RequestBuilt
    /\ Len(HistoryOf(config)) = 2
    /\ config.history[1] # config.history[2]
    /\ userPrompt # <<>>
    /\ Len(request.messages) = 4

\* the caller supplied a value other than undefined under the key of llm
Supplied(cfg, k) == Has(cfg, "llm") /\ Get(cfg.llm, k).t # "undefined"

\* C12: the backend call carries maxTokens (resp. topP) if and only if the
\* caller supplied a defined value for it, and it always carries a model and a
\* temperature: the caller's value when one was supplied, otherwise the default
\* of DEFAULT_LLM_CONFIG, also when the key of llm is present with the value
\* undefined.
C12_SamplingParameters ==
    RequestBuilt =>
        /\ \A k \in {"maxTokens", "topP"} :
              /\ Has(request, k) <=> Supplied(config, k)
              /\ Has(request, k) => request[k] = config.llm[k]
        /\ Has(request, "model")
        /\ Has(request, "temperature")
        /\ request.temperature =
              IF Supplied(config, "temperature") THEN config.llm.temperature
              ELSE DEFAULT_LLM_CONFIG(impl).temperature
        /\ Supplied(config, "model") /\ config.llm.model.t = "string"
              => request.model.modelId = config.llm.model.v
        /\ Supplied(config, "model") /\ config.llm.model.t = "object"
              => request.model = [instance |-> config.llm.model.v]
        /\ ~Supplied(config, "model")
              => request.model.modelId = DEFAULT_LLM_CONFIG(impl).model.v


----------------------------------------------------------------------------
(* The fallback synthesizer                                                  *)

\* the same letter, in either case
SameLetter(c, d) ==
    \/ c = d
    \/ \E k \in 1..26 : {c, d} = {UpperCaseLetters[k], LowerCaseLetters[k]}

\* the word occurs in the prompt, whatever the case of the prompt's letters
Mentions(prompt, word) ==
    \E i \in 0..(Len(prompt) - Len(word)) :
        \A j \in 1..Len(word) : SameLetter(prompt[i + j], word[j])

MentionsPricing(prompt) == \E w \in PricingWords : Mentions(prompt, w)
MentionsDashboard(prompt) == \E w \in DashboardWords : Mentions(prompt, w)

Synthesized == impl = "buildFallbackResponse" /\ pc = "done"

IsPricingTable(ui) == Len(ui) = 1 /\ ui[1].type = "table"
IsStatContainer(ui) ==
    Len(ui) = 1 /\ ui[1].type = "container" /\ ui[1].props.direction = "row"
IsDefaultContainer(ui) ==
    Len(ui) = 1 /\ ui[1].type = "container" /\ ui[1].props.direction = "column"

\* C13: the first matching rule wins in the order pricing, dashboard, default,
\* and matching ignores case: a prompt mentioning a pricing word (also one that
\* mentions a dashboard word too) yields the pricing table, a prompt mentioning
\* only a dashboard word yields the stat container, a prompt mentioning neither
\* yields the default container.
C13_FallbackRulePriority ==
    Synthesized =>
        LET ui == outcome.value.ui
        IN  /\ MentionsPricing(userPrompt) => IsPricingTable(ui)
            /\ ~MentionsPricing(userPrompt) /\ MentionsDashboard(userPrompt)
                  => IsStatContainer(ui)
            /\ ~MentionsPricing(userPrompt) /\ ~MentionsDashboard(userPrompt)
                  => IsDefaultContainer(ui)

\* a prompt with a dashboard word followed by a pricing word in capitals got
\* the pricing table
C13_Witness ==
    /\ Synthesized
    /\ userPrompt = <<"k", "p", "i", "P", "L", "A", "N", "S">>
    /\ IsPricingTable(outcome.value.ui)

\* a dashboard word in mixed case alone got the stat container
C13_WitnessDashboard ==
    /\ Synthesized
    /\ userPrompt = <<"D", "a", "s", "h", "b", "o", "a", "r", "d">>
    /\ IsStatContainer(outcome.value.ui)

\* C14: for every prompt matching no keyword rule, ui is exactly one column
\* container whose children are exactly a heading with text "Request", then a
\* text node whose text is the original prompt, character for character.
C14_DefaultEchoesPrompt ==
    (Synthesized /\ ~MentionsPricing(userPrompt) /\ ~MentionsDashboard(userPrompt))
        => LET ui == outcome.value.ui
           IN  /\ Len(ui) = 1
               /\ ui[1].type = "container"
               /\ ui[1].props.direction = "column"
               /\ Len(ui[1].children) = 2
               /\ ui[1].children[1].type = "heading"
               /\ ui[1].children[1].props.text = <<"R", "e", "q", "u", "e", "s", "t">>
               /\ ui[1].children[2].type = "text"
               /\ ui[1].children[2].props.text = userPrompt

\* a prompt with a capital letter that matches no rule was echoed
C14_Witness ==
    /\ Synthesized
    /\ userPrompt = <<"H", "e", "l", "l", "o", " ">>
    /\ outcome.value.ui[1].children[2].props.text = <<"H", "e", "l", "l", "o", " ">>

\* C15: for every prompt that matches the pricing vocabulary the envelope has
\* a title and ui[0] is a table with exactly the three columns keyed tier,
\* price, features in that order and exactly two rows, with tier "Basic" then
\* tier "Pro".
C15_PricingFallbackShape ==
    (Synthesized /\ MentionsPricing(userPrompt))
        => LET r == outcome.value
               table == r.ui[1]
           IN  /\ Has(r, "title")
               /\ Len(r.ui) >= 1
               /\ table.type = "table"
               /\ Len(table.props.columns) = 3
               /\ table.props.columns[1].key = "tier"
               /\ table.props.columns[2].key = "price"
               /\ table.props.columns[3].key = "features"
               /\ Len(table.props.rows) = 2
               /\ table.props.rows[1].tier = "Basic"
               /\ table.props.rows[2].tier = "Pro"

\* a pricing word after another word got the table
C15_Witness ==
    /\ Synthesized
    /\ userPrompt = <<"H", "e", "l", "l", "o", "t", "i", "e", "r">>
    /\ outcome.value.ui[1].type = "table"
    /\ Len(outcome.value.ui[1].props.rows) = 2

\* C16: for every prompt that matches the dashboard vocabulary and not the
\* pricing vocabulary, ui[0] is a row container with exactly three children,
\* each a column container whose children are exactly text, heading, text.
C16_DashboardFallbackShape ==
    (Synthesized /\ MentionsDashboard(userPrompt) /\ ~MentionsPricing(userPrompt))
        => LET top == outcome.value.ui[1]
           IN  /\ top.type = "container"
               /\ top.props.direction = "row"
               /\ Len(top.children) = 3
               /\ \A i \in 1..3 :
                     /\ top.children[i].type = "container"
                     /\ top.children[i].props.direction = "column"
                     /\ Len(top.children[i].children) = 3
                     /\ top.children[i].children[1].type = "text"
                     /\ top.children[i].children[2].type = "heading"
                     /\ top.children[i].children[3].type = "text"

\* a prompt with only a dashboard word got three stat blocks
C16_Witness ==
    /\ Synthesized
    /\ userPrompt = <<"M", "E", "T", "R", "I", "C", "c", "a", "r", "d">>
    /\ Len(outcome.value.ui[1].children) = 3


\* C17: for every prompt (the empty one and prompts matching several rules
\* included) buildFallbackResponse returns an envelope that AgentResponseSchema
\* accepts: every node has a known type, its props are in the declared domains
\* (gap within [0,48], heading level an integer within [1,4], declared enum
\* values) and only containers have children.
C17_FallbackSchemaValid ==
    Synthesized =>
        /\ outcome.kind = "resolved"
        /\ acceptsResponse(outcome.value)
        /\ LET all == NodeList(outcome.value.ui)
           IN  \A i \in 1..Len(all) :
                 LET nd == all[i]
                 IN  /\ nd.type \in NodeTypes
                     /\ Has(nd, "children") => nd.type = "container"
                     /\ nd.type = "container" =>
                           /\ nd.props.gap >= 0 /\ nd.props.gap <= 48
                           /\ nd.props.direction \in Directions
                           /\ nd.props.align \in Aligns
                           /\ nd.props.justify \in Justifies
                     /\ nd.type = "heading" => isInteger(nd.props.level) /\ nd.props.level.whole \in 1..4
                     /\ nd.type = "text" => nd.props.variant \in TextVariants

\* the three branches were taken: the empty prompt (default), a prompt
\* matching both rules (pricing), a prompt matching the dashboard rule
C17_WitnessEmpty ==
    Synthesized /\ userPrompt = <<>> /\ IsDefaultContainer(outcome.value.ui)

C17_Witness ==
    /\ Synthesized
    /\ userPrompt = <<"S", "t", "a", "t", "t", "i", "e", "r">>
    /\ acceptsResponse(outcome.value)
    /\ IsPricingTable(outcome.value.ui)

C17_WitnessDashboard ==
    /\ Synthesized
    /\ userPrompt = <<"c", "a", "r", "d", " ">>
    /\ acceptsResponse(outcome.value)
    /\ Len(NodeList(outcome.value.ui)) = 13

\* C19: every fallback envelope, in all three branches and for every prompt,
\* has a non-empty suggestions list, an empty actions list and an empty
\* messages list.
C19_SuggestionsOnly ==
    Synthesized =>
        /\ Has(outcome.value, "suggestions") /\ Len(outcome.value.suggestions) >= 1
        /\ Has(outcome.value, "actions") /\ outcome.value.actions = <<>>
        /\ Has(outcome.value, "messages") /\ outcome.value.messages = <<>>

\* the default branch returned its two suggestions
C19_Witness ==
    /\ Synthesized
    /\ userPrompt = <<"P", "r", "i", "c">>
    /\ IsDefaultContainer(outcome.value.ui)
    /\ Len(outcome.value.suggestions) = 2


\* C18: whenever respond returns a fallback envelope with the built-in schema
\* in effect (and id assignment not switched off), the normalizer has been
\* applied to it as on the success path: every node of every branch has an id
\* and all ids are pairwise distinct.
C18_FallbackIdentity ==
    (/\ impl = "fallback"
     /\ pc = "done"
     /\ BackendFailed
     /\ outcome.kind = "resolved"
     /\ BuiltInInEffect(config)
     /\ ~(Has(config, "autoAssignIds") /\ config.autoAssignIds = FALSE))
        => LET all == NodeList(outcome.value.ui)
           IN  /\ \A i \in 1..Len(all) : Has(all[i], "id")
               /\ \A i, j \in 1..Len(all) :
                     (i # j /\ Has(all[i], "id") /\ Has(all[j], "id"))
                         => all[i].id # all[j].id


----------------------------------------------------------------------------
(* Schema validation                                                         *)

Validated == vpc = "done" /\ validated.success

\* the defaults the props of a type are said to get
ClaimedDefaults(type) ==
    CASE type = "heading" -> [level |-> Whole(2)]
      [] type = "container" ->
            [direction |-> "column", gap |-> 12, align |-> "start", justify |-> "start"]
      [] type = "text" -> [variant |-> "body"]
      [] type = "button" -> [variant |-> "primary"]
      [] type = "input" -> [inputType |-> "text"]
      [] OTHER -> <<>>

\* the node has a declared type, its required props, and every defaulted prop
\* either absent or inside its declared domain
WellFormed(node) ==
    /\ Has(node, "type") /\ node.type \in NodeTypes /\ Has(node, "props")
    /\ RequiredProps(node.type) \subseteq DOMAIN node.props
    /\ \A k \in DOMAIN node.props \cap DeclaredProps(node.type) :
          InDomain(node.type, k, node.props[k])

\* C20: validating a node with omitted optional props fills the declared
\* defaults: heading level 2; container direction column, gap 12, align start,
\* justify start and, without children, an empty children list; text variant
\* body; button variant primary; input inputType text; a value supplied inside
\* the declared domain is kept.
C20_DefaultApplication ==
    /\ Validated =>
          LET given == raw.props
              props == validated.data.props
              defaults == ClaimedDefaults(raw.type)
          IN  /\ \A k \in DOMAIN defaults :
                    /\ Has(props, k)
                    /\ props[k] = IF Has(given, k) THEN given[k] ELSE defaults[k]
              /\ (raw.type = "container" /\ ~Has(raw, "children"))
                    => Has(validated.data, "children") /\ validated.data.children = <<>>
    /\ (/\ vpc = "done"
        /\ WellFormed(raw)
        /\ raw.type \in {"heading", "text", "button", "input"})
          => validated.success

\* a container with empty props was validated and got the four defaults and
\* an empty children list
C20_Witness ==
    /\ vpc = "done"
    /\ raw = [type |-> "container", props |-> <<>>]
    /\ validated =
          [success |-> TRUE,
           data |-> [type |-> "container",
                     props |-> [direction |-> "column", gap |-> 12,
                                align |-> "start", justify |-> "start"],
                     children |-> <<>>]]

\* a heading without level got level 2, a heading with level 4 kept it
C20_WitnessHeading ==
    /\ Validated
    /\ raw.type = "heading"
    /\ \/ ~Has(raw.props, "level") /\ validated.data.props.level = Whole(2)
       \/ Has(raw.props, "level") /\ validated.data.props.level = Whole(4)


\* the props of the node break a declared domain: an input without name, a
\* heading level outside [1,4] or not an integer, a container gap outside
\* [0,48], an enum-valued prop outside its declared set
OutOfDomain(node) ==
    LET props == node.props
        outside(k, values) == Has(props, k) /\ props[k] \notin values
    IN  \/ node.type = "input" /\ ~Has(props, "name")
        \/ node.type = "heading" /\ Has(props, "level")
              /\ (props.level.tenths # 0 \/ props.level.whole < 1 \/ props.level.whole > 4)
        \/ node.type = "container" /\ Has(props, "gap")
              /\ (props.gap < 0 \/ props.gap > 48)
        \/ node.type = "text" /\ outside("variant", {"body", "muted", "caption"})
        \/ node.type = "button" /\ outside("variant", {"primary", "secondary", "danger"})
        \/ node.type = "input"
              /\ outside("inputType", {"text", "email", "password", "number", "date"})
        \/ node.type = "container"
              /\ \/ outside("direction", {"row", "column"})
                 \/ outside("align", {"start", "center", "end", "stretch"})
                 \/ outside("justify", {"start", "center", "end", "between"})

Rejected == vpc = "done" /\ validated = [success |-> FALSE]

\* C21: validation fails, producing no node and adjusting no value into range,
\* for an input whose props omit name, for a heading whose level is outside
\* [1,4] or not an integer, for a container whose gap is outside [0,48], and
\* for any enum-valued prop holding a value outside its declared set.
C21_OutOfDomainRejected ==
    (/\ vpc = "done"
     /\ Has(raw, "type") /\ Has(raw, "props")
     /\ OutOfDomain(raw))
        => Rejected

\* a heading with level 9 was rejected
C21_Witness ==
    /\ Rejected
    /\ raw = [type |-> "heading", props |-> [text |-> <<"H", "i">>, level |-> Whole(9)]]

\* a heading with level 2.5, an input without name and a container with gap 49
\* were rejected
C21_WitnessFraction ==
    /\ Rejected
    /\ raw = [type |-> "heading", props |-> [text |-> <<"H", "i">>, level |-> Number(2, 5)]]

C21_WitnessName ==
    Rejected /\ raw = [type |-> "input", props |-> <<>>]

C21_WitnessGap ==
    /\ Rejected
    /\ raw = [type |-> "container", props |-> [gap |-> 49]]


\* the node at the bottom of a chain of containers built by Wrap
RECURSIVE Unwrap(_)
Unwrap(node) ==
    IF /\ Has(node, "type") /\ node.type = "container"
       /\ Has(node, "children") /\ Len(node.children) = 2
       /\ node.children[1] = TextShape
       /\ Has(node, "props") /\ node.props = <<>>
    THEN Unwrap(node.children[2])
    ELSE node

\* the number of containers of that chain
RECURSIVE DepthOf(_)
DepthOf(node) == IF Unwrap(node) = node THEN 0 ELSE 1 + DepthOf(node.children[2])

IsForm(node) == Has(node, "type") /\ node.type = "form" /\ Has(node, "props")

\* an input with its name and, if any, a declared inputType
ValidInputField(f) ==
    /\ Has(f, "type") /\ f.type = "input"
    /\ Has(f, "props") /\ Has(f.props, "name")
    /\ Has(f.props, "inputType")
          => f.props.inputType \in {"text", "email", "password", "number", "date"}

\* C22: validating a form fails whenever an entry of props.fields has a type
\* other than input (a container, form, button or text entry), at whatever
\* depth the form sits inside containers; a form whose fields are all valid
\* inputs, or whose fields are omitted, is accepted.
C22_FormFieldRestriction ==
    (vpc = "done" /\ IsForm(Unwrap(raw))) =>
        LET form == Unwrap(raw)
            fields == IF Has(form.props, "fields") THEN form.props.fields ELSE <<>>
        IN  /\ (\E i \in 1..Len(fields) : fields[i].type # "input") => Rejected
            /\ (\A i \in 1..Len(fields) : ValidInputField(fields[i])) => validated.success

\* a form two containers deep whose second field is a button was rejected
C22_Witness ==
    /\ Rejected
    /\ DepthOf(raw) = 2
    /\ IsForm(Unwrap(raw))
    /\ Has(Unwrap(raw).props, "fields")
    /\ Len(Unwrap(raw).props.fields) = 2
    /\ Unwrap(raw).props.fields[2].type = "button"

\* a nested form with two input fields was accepted
C22_WitnessAccepted ==
    /\ Validated
    /\ DepthOf(raw) = 1
    /\ IsForm(Unwrap(raw))
    /\ Has(Unwrap(raw).props, "fields")
    /\ Unwrap(raw).props.fields = <<InputShape, InputShape>>


\* the node has no declared type, no props, or props outside a declared domain
Broken(node) ==
    \/ ~Has(node, "type")
    \/ node.type \notin NodeTypes
    \/ ~Has(node, "props")
    \/ OutOfDomain(node)

EnvelopeValidated == vpc = "envelope"

\* C23: an envelope is accepted only if every node reachable from ui through
\* container children is valid: one node with an unknown type or invalid props
\* at depth d inside otherwise valid containers makes validation of the whole
\* envelope fail, for every d up to MaxDepth; with a valid node in its place
\* the envelope is accepted.
C23_RecursiveValidation ==
    EnvelopeValidated =>
        LET node == Unwrap(raw)
        IN  /\ Broken(node) => validated = [success |-> FALSE]
            /\ (WellFormed(node) /\ node.type \in {"heading", "text", "button", "input"})
                  => /\ validated.success
                     /\ Len(validated.data.ui) = 1

\* an unknown type at the deepest level made the envelope fail
C23_Witness ==
    /\ EnvelopeValidated
    /\ DepthOf(raw) = MaxDepth
    /\ Unwrap(raw) = [type |-> "video", props |-> <<>>]
    /\ validated = [success |-> FALSE]

\* a heading with level 9 one container deep made the envelope fail
C23_WitnessProps ==
    /\ EnvelopeValidated
    /\ DepthOf(raw) = 1
    /\ Unwrap(raw) = [type |-> "heading", props |-> [text |-> <<"H", "i">>, level |-> Whole(9)]]
    /\ validated = [success |-> FALSE]


----------------------------------------------------------------------------
(* An agent made by createAgent                                              *)

\* the position of the first message with that role and content, 0 if none
PositionOf(messages, role, content) ==
    IF \E k \in 1..Len(messages) : messages[k] = [role |-> role, content |-> content]
    THEN CHOOSE k \in 1..Len(messages) :
            /\ messages[k] = [role |-> role, content |-> content]
            /\ \A l \in 1..(k - 1) : messages[l] # [role |-> role, content |-> content]
    ELSE 0

\* C24: after agent.respond(p1) has completed, the message sequence sent to
\* the backend by a following agent.respond(p2) on the same agent contains p1
\* as a user message ahead of p2.
C24_AgentMaintainsContext ==
    AgentIdle \/
    \A i, j \in 1..MaxCalls :
        (inv[j].pc # "idle" /\ i \in inv[j].after)
            => LET messages == inv[j].request.messages
                   k == PositionOf(messages, "user", inv[i].prompt)
               IN  k >= 1 /\ k < Len(messages)


\* an envelope without its ids, and which of its nodes have one
WithoutIds(value) ==
    IF Has(value, "ui") THEN Spread(value, [ui |-> StripIds(value.ui)]) ELSE value

IdPattern(value) ==
    IF Has(value, "ui")
    THEN LET all == NodeList(value.ui) IN [k \in 1..Len(all) |-> Has(all[k], "id")]
    ELSE <<>>

\* the two results are the same but for the values of the ids
SameUpToIds(a, b) ==
    /\ a.kind = b.kind
    /\ a.kind = "rejected" => a = b
    /\ a.kind = "resolved" =>
          /\ WithoutIds(a.value) = WithoutIds(b.value)
          /\ IdPattern(a.value) = IdPattern(b.value)

\* what invocation i settles with when it runs alone on a fresh process, with
\* the same prompt, the same config and the same backend outcome
Alone(i) ==
    IF inv[i].backend.kind = "object"
    THEN respondReturn(config, inv[i].backend.object, 0).outcome
    ELSE respondCatch(impl, inv[i].prompt, config,
                      IF inv[i].backend.kind = "error" THEN inv[i].backend.error
                      ELSE "Model did not call the required tool", 0).outcome

\* C29: for respond invocations of one agent interleaved in any order at their
\* backend awaits, the request and the result of each equal those it produces
\* when run alone with the same inputs and the same backend outcome (up to the
\* minted ids), and a step of one invocation changes neither the shared config
\* (history included) nor anything of another invocation.
C29_ConcurrentIndependent ==
    /\ [](AgentIdle \/
          \A i \in 1..MaxCalls :
              /\ inv[i].pc # "idle"
                    => inv[i].request = buildGenerateConfig(impl, inv[i].prompt, config)
              /\ inv[i].pc = "done" => SameUpToIds(inv[i].outcome, Alone(i)))
    /\ [][AgentIdle \/
          (/\ config' = config
           /\ \A i, j \in 1..MaxCalls :
                 (i # j /\ inv'[i] # inv[i]) => inv'[j] = inv[j])]_vars

\* two invocations that overlapped at their awaits have completed with
\* different results
C29_Witness ==
    /\ ~AgentIdle
    /\ inv[1].pc = "done" /\ inv[2].pc = "done"
    /\ 1 \notin inv[2].after /\ 2 \notin inv[1].after
    /\ Has(config, "history")
    /\ inv[1].outcome.kind = "resolved" /\ inv[2].outcome.kind = "resolved"
    /\ WithoutIds(inv[1].outcome.value) # WithoutIds(inv[2].outcome.value)


----------------------------------------------------------------------------
(* The arguments after the call                                              *)

\* C26: assignIdsToTree leaves the forest it is given exactly as it was (F
\* after the first call, and the first result after the second call), and
\* respond leaves config (history included), the prompt and the backend's
\* result object as they were.
C26_InputsNotMutated ==
    [][/\ nodes' = nodes
       /\ npc = "once" => normalized' = normalized
       /\ config' = config
       /\ userPrompt' = userPrompt
       /\ backend.kind = "object" => backend' = backend
       /\ request # <<>> => request' = request]_vars

\* C26 witness: a forest with a node without id has gone through the
\* normalizer, every node of the result has an id, and the forest still has
\* its node without id.
C26_Witness ==
    /\ npc = "once"
    /\ Unidentified(nodes) # {}
    /\ HasNestedFormWithFields(nodes)
    /\ AllHaveIds(normalized)

\* a respond invocation has returned the normalized copy of an object whose
\* text node has no id
C26_WitnessRespond ==
    /\ pc = "done"
    /\ backend.kind = "object"
    /\ Has(backend.object, "ui") /\ Len(backend.object.ui) = 2
    /\ ~AllHaveIds(backend.object.ui)
    /\ outcome.kind = "resolved" /\ AllHaveIds(outcome.value.ui)


----------------------------------------------------------------------------
(* The backend respond resolves (checked under SpecRequest)                  *)

CallerLlm(cfg, k) == IF Has(cfg, "llm") THEN Get(cfg.llm, k) ELSE JsUndefined

\* C27: when llm.model is a model instance the backend call uses it as is,
\* whatever llm.provider is; otherwise the model of the backend call is the one
\* the caller's llm.provider yields (the default provider when none was
\* supplied) for the caller's model name (the default model name when none was
\* supplied, also when llm.model is present with the value undefined).
C27_BackendResolution ==
    RequestBuilt =>
        LET m == CallerLlm(config, "model")
            p == CallerLlm(config, "provider")
        IN  IF m.t = "object"
            THEN request.model = [instance |-> m.v]
            ELSE request.model =
                     [provider |-> IF p.t = "undefined" THEN "openai" ELSE p.v,
                      modelId  |-> IF m.t = "string" THEN m.v
                                   ELSE DEFAULT_LLM_CONFIG(impl).model.v]

\* the same, in the runs in which the caller names the model whenever it
\* supplies a provider
C27_ProviderWithModelName ==
    (CallerLlm(config, "provider").t # "undefined"
         => CallerLlm(config, "model").t # "undefined")
        => C27_BackendResolution


----------------------------------------------------------------------------
(* The backend calls of one respond invocation (checked under Spec)          *)

\* C28: an invocation of respond calls the backend at most once, and once the
\* call has failed (rejected, or resolved without a tool call) no step of
\* respond calls the backend again; a settled invocation whose model was
\* resolved has called it exactly once.
C28_OneBackendCall ==
    /\ [](calls <= 1)
    /\ [](pc = "done" /\ model = "LanguageModel" => calls = 1)
    /\ [](model = "threw" => calls = 0)
    /\ [][BackendFailed => calls' = calls]_vars
    /\ [][BackendFailed' /\ ~BackendFailed => pc' = "done" /\ outcome'.kind # "pending"]_vars

\* C28 witness: the one backend call has rejected and respond has settled
\* (with the fallback in part_006, with the rejection in index.ts).
C28_Witness ==
    /\ pc = "done"
    /\ backend.kind = "error"
    /\ calls = 1
    /\ outcome.kind \in {"resolved", "rejected"}


----------------------------------------------------------------------------
(* The chat page (checked under SpecChat)                                    *)

InFlight(i) == runs[i].pc \in {"fetching", "reading"}

RequestsInFlight == {i \in 1..Len(runs) : InFlight(i)}

\* the invocations of handleSubmit that went past the first line
AcceptedRuns == SelectSeq(runs, LAMBDA r : r.pc # "returned")

SubmitEvent == Len(runs') = Len(runs) + 1

\* the list is, per accepted submit in order, its user message followed, once
\* the request has settled, by one message: the ui message when the answer was
\* read, the error message otherwise
MessagesInOrder ==
    LET acc == AcceptedRuns
        settled == {k \in 1..Len(acc) : acc[k].pc = "done"}
    IN  /\ Len(pageMessages) = Len(acc) + Cardinality(settled)
        /\ \A k \in 1..Len(acc) :
              /\ pageMessages[2 * k - 1] = acc[k].userMessage
              /\ k \in settled =>
                    LET reply == pageMessages[2 * k]
                    IN  IF acc[k].ended = "ok"
                        THEN /\ reply.role = "assistant"
                             /\ Has(reply, "ui")
                             /\ reply.ui \in ChatObjects
                        ELSE reply = errorMessage

\* C30: at most one /api/chat request is in flight at any time; a submit while
\* isLoading is true or with blank input changes neither the messages, the
\* input nor isLoading and starts no request; every accepted submit has its
\* user message in the list before the message appended for it, which is the
\* parsed ui message or exactly one error message; and isLoading is true
\* exactly while a request is in flight: the step on which the request
\* settles (answer read, non-OK status, fetch or body read throwing) sets it
\* to false.
C30_SubmitProtocol ==
    /\ [](Cardinality(RequestsInFlight) <= 1)
    /\ [][SubmitEvent /\ (isLoading \/ trim(input) = <<>>)
            => /\ UNCHANGED <<pageMessages, input, isLoading, rendered>>
               /\ runs'[Len(runs')].pc = "returned"]_vars
    /\ [][SubmitEvent /\ ~isLoading /\ ~rendered.isLoading /\ trim(input) # <<>>
            => /\ runs'[Len(runs')].pc = "fetching"
               /\ pageMessages' = Append(pageMessages,
                                         [role |-> "user", content |-> trim(input)])
               /\ isLoading']_vars
    /\ []MessagesInOrder
    /\ [](isLoading <=> RequestsInFlight # {})
    /\ [][\A i \in 1..Len(runs) :
             InFlight(i) /\ runs'[i].pc = "done" => ~isLoading']_vars

\* C30 witness: two submits were accepted one after the other; the first was
\* answered with a ui message, the second with a non-OK status, and isLoading
\* is false again.
C30_Witness ==
    /\ Len(runs) = 2
    /\ runs[1].pc = "done" /\ runs[1].ended = "ok"
    /\ runs[2].pc = "done" /\ runs[2].ended = "not_ok"
    /\ Len(pageMessages) = 4
    /\ Has(pageMessages[2], "ui")
    /\ pageMessages[4] = errorMessage
    /\ ~isLoading

\* a submit arrived while the first request was in flight and was ignored
C30_WitnessIgnored ==
    /\ Len(runs) = 2
    /\ runs[1].pc = "reading"
    /\ runs[2].pc = "returned"
    /\ input # <<>> /\ trim(input) # <<>>
    /\ isLoading

\* fetch threw, and the body could not be read
C30_WitnessThrew ==
    /\ Len(runs) = 2
    /\ runs[1].pc = "done" /\ runs[1].ended = "fetch_threw"
    /\ runs[2].pc = "done" /\ runs[2].ended = "text_threw"
    /\ ~isLoading


====
